---- MODULE Spec2Model ----
(***************************************************************************)
(* A model of llmock, a mock LLM API server: the fault engine (fault.go),  *)
(* the rule engine (rules.go: RuleResponder), the admin state (admin.go),  *)
(* the control plane (control.go) and the request handlers (server.go).    *)
(*                                                                         *)
(* Texts (inputs, templates, responses) are sequences of atoms; the empty  *)
(* string is <<>>. A regular expression is modelled by the set of inputs   *)
(* it matches.                                                             *)
(***************************************************************************)
EXTENDS Integers, Sequences, FiniteSets, TLC

\* ------------------------------------------------------------------------
\* Bounds of the model.
\* ------------------------------------------------------------------------
MaxRequests == 4
MaxFaultAdds == 3
MaxRuleAdds == 2
SpecMaxRequests == 2
SpecMaxFaultAdds == 2
SpecMaxRuleAdds == 1
AdminMaxRequests == 2
FaultsMaxRequests == 3
SnapMaxCalls == 3
OrderMaxRequests == 3
ToolsMaxRequests == 2
LogMaxRequests == 102
NProcs == 2

\* ------------------------------------------------------------------------
\* Small helpers on sequences.
\* ------------------------------------------------------------------------
RemoveAt(s, i) == SubSeq(s, 1, i - 1) \o SubSeq(s, i + 1, Len(s))

Min(a, b) == IF a <= b THEN a ELSE b

\* ------------------------------------------------------------------------
\* fault.go: Fault, activeFault, faultState.
\* A probability is kept in percent: 0 is "unset", 100 is 1.0.
\* ------------------------------------------------------------------------
FaultError == "error"
FaultDelay == "delay"
FaultTimeout == "timeout"
FaultMalformed == "malformed"
FaultRateLimit == "rate_limit"

Fault(type, probability, count, delayMS) ==
    [Type |-> type, Probability |-> probability, Count |-> count, DelayMS |-> delayMS]

\* The faults a test or an admin call may add.
FaultChoices ==
    { Fault(FaultError, 0, 2, 0),
      Fault(FaultDelay, 50, 0, 5),
      Fault(FaultTimeout, 50, 1, 0) }

\* The values rng.Float64() may return, in percent: one below and one above
\* every fractional probability of the faults of this model.
Variates == {25, 75}

\* activeFault{Fault: f, remaining: f.Count}; id is the model's serial number
\* of the fault (the n-th fault ever added), by which the properties name it.
Active(f, id) == [Fault |-> f, remaining |-> f.Count, id |-> id]

\* evaluate's probability test on one fault, given the variate drawn for it.
Skipped(af, v) ==
    LET prob == IF af.Fault.Probability <= 0 THEN 100 ELSE af.Fault.Probability
    IN  prob < 100 /\ v >= prob

\* A loop that keeps looking after a draw has passed and settles on the last
\* fault that is not skipped: not what evaluate does.
RECURSIVE LastFiringIndex(_, _, _)
LastFiringIndex(fs, d, i) ==
    IF i > Len(fs) THEN 0
    ELSE LET later == LastFiringIndex(fs, d, i + 1)
         IN  IF later # 0 THEN later
             ELSE IF Skipped(fs[i], d[i]) THEN 0 ELSE i

\* The loop of evaluate from index i on: the index of the first fault that is
\* not skipped, 0 if there is none. d[i] is the variate drawn at index i.
RECURSIVE FiringIndex(_, _, _)
FiringIndex(fs, d, i) ==
    IF i > Len(fs) THEN 0
    ELSE IF Skipped(fs[i], d[i]) THEN FiringIndex(fs, d, i + 1)
    ELSE i

\* A bookkeeping that decrements but leaves the exhausted fault in the list:
\* not what evaluate does.
ConsumeKeep(fs, i) ==
    IF fs[i].remaining > 0
    THEN [fs EXCEPT ![i].remaining = fs[i].remaining - 1]
    ELSE fs

\* The count bookkeeping of evaluate on the firing fault at index i.
Consume(fs, i) ==
    IF fs[i].remaining > 0
    THEN IF fs[i].remaining - 1 = 0
         THEN RemoveAt(fs, i)
         ELSE [fs EXCEPT ![i].remaining = fs[i].remaining - 1]
    ELSE fs

\* evaluate() as one step under the mutex: the firing index, the fault
\* returned and the fault list left behind.
evaluate(fs, d) ==
    LET i == FiringIndex(fs, d, 1)
    IN  IF i = 0
        THEN [ok |-> FALSE, index |-> 0, id |-> 0, fault |-> Fault("", 0, 0, 0), faults |-> fs]
        ELSE [ok |-> TRUE, index |-> i, id |-> fs[i].id, fault |-> fs[i].Fault, faults |-> Consume(fs, i)]

\* addFaults appends to the active list.
addFaults(fs, f, id) == Append(fs, Active(f, id))

\* An executeFault after which the handler goes on to the responder when
\* the fault is a timeout: not what executeFault does.
executeFaultPassing(f, disconnect) ==
    CASE f.Type = FaultDelay -> f.DelayMS > 0 /\ disconnect
      [] f.Type = FaultError -> TRUE
      [] f.Type = FaultRateLimit -> TRUE
      [] f.Type = FaultMalformed -> TRUE
      [] OTHER -> FALSE

\* executeFault: TRUE when the fault was fully handled and the handler
\* returns. disconnect: the client context is done during the delay.
executeFault(f, disconnect) ==
    CASE f.Type = FaultDelay -> f.DelayMS > 0 /\ disconnect
      [] f.Type = FaultError -> TRUE
      [] f.Type = FaultRateLimit -> TRUE
      [] f.Type = FaultTimeout -> TRUE
      [] f.Type = FaultMalformed -> TRUE
      [] OTHER -> FALSE

\* ------------------------------------------------------------------------
\* rules.go: Rule, Response, RuleResponder.
\* ------------------------------------------------------------------------
Search == <<"search">>
Hello == <<"hello">>
Empty == <<>>

\* MaxCalls nil is -1; ToolCall nil is the record with the empty name.
NoToolCall == [Name |-> "", Arguments |-> <<>>]

Rule(pattern, matches, responses, toolCall, maxCalls) ==
    [Pattern |-> pattern, Matches |-> matches, Responses |-> responses,
     ToolCall |-> toolCall, MaxCalls |-> maxCalls]

SearchTool == [Name |-> "search_kb", Arguments |-> <<"q=", "${input}">>]
FetchTool == [Name |-> "fetch_data", Arguments |-> <<>>]

\* tool call, max_calls 2, with text responses
RuleToolText == Rule(".*search.*", {Search}, << <<"summary">>, <<"found:", "${input}">> >>, SearchTool, 2)
\* tool call, max_calls 1, no text responses
RuleToolOnly == Rule("search", {Search}, <<>>, FetchTool, 1)
\* tool call, no max_calls
RuleToolFree == Rule("^hello$", {Hello}, <<>>, FetchTool, -1)
\* text rules
RuleCatchAll == Rule(".*", {Search, Hello}, << <<"catchall">> >>, NoToolCall, -1)
RuleEcho == Rule("(.*)", {Search, Hello}, << <<"${input}">>, <<>> >>, NoToolCall, -1)
RuleHello == Rule("hello", {Hello}, << <<"hi">> >>, NoToolCall, -1)

\* The rule lists a server is started with (WithRules).
Baselines ==
    { <<RuleToolText, RuleCatchAll>>,
      <<RuleToolOnly, RuleToolText>>,
      <<RuleToolOnly, RuleToolFree>>,
      <<RuleHello, RuleToolOnly, RuleCatchAll>> }

\* An extractInput that takes the first user message instead of the last:
\* not what extractInput does.
RECURSIVE FirstUser(_, _)
FirstUser(messages, i) ==
    IF i > Len(messages) THEN 0
    ELSE IF messages[i].Role = "user" THEN i
    ELSE FirstUser(messages, i + 1)

extractInputFirstUser(messages) ==
    LET i == FirstUser(messages, 1)
    IN  IF i > 0 THEN messages[i].Content
        ELSE IF Len(messages) > 0 THEN messages[Len(messages)].Content
        ELSE Empty

\* server.go: extractInput: the content of the last user message, else of the
\* last message, else the empty string.
RECURSIVE LastUser(_, _)
LastUser(messages, i) ==
    IF i = 0 THEN 0
    ELSE IF messages[i].Role = "user" THEN i
    ELSE LastUser(messages, i - 1)

extractInput(messages) ==
    LET i == LastUser(messages, Len(messages))
    IN  IF i > 0 THEN messages[i].Content
        ELSE IF Len(messages) > 0 THEN messages[Len(messages)].Content
        ELSE Empty

\* expandTemplate: ${input} is replaced by the input (the templates of this
\* model use no capture groups and no markov placeholders).
RECURSIVE expandTemplate(_, _)
expandTemplate(template, input) ==
    IF template = <<>> THEN <<>>
    ELSE (IF Head(template) = "${input}" THEN input ELSE <<Head(template)>>)
         \o expandTemplate(Tail(template), input)

\* toolcall.go: resolveToolCall expands the argument templates.
resolveToolCall(cfg, input) ==
    [Name |-> cfg.Name, Arguments |-> expandTemplate(cfg.Arguments, input)]

TextResponse(text) == [Text |-> text, ToolCalls |-> <<>>]
ToolCallResponse(tc) == [Text |-> <<>>, ToolCalls |-> <<tc>>]
IsToolCall(response) == Len(response.ToolCalls) > 0

\* The text of the Markov fallback (opaque generated text).
MarkovText == <<"markov">>

\* One of the rule's text responses, expanded: rand.IntN picks the template.
\* It is the generator of package math/rand/v2, which the server's seed does
\* not reach: any template may come, whatever the seed and the calls before.
TextChoices(rule, input) ==
    { TextResponse(expandTemplate(rule.Responses[k], input)) : k \in 1..Len(rule.Responses) }

\* A check that lets one call too many through (count > max): not what
\* Respond does.
exhaustedLate(rule, count) == rule.MaxCalls # -1 /\ count > rule.MaxCalls

\* Respond's max_calls check: count >= *rule.MaxCalls (no limit when nil).
exhausted(rule, count) == rule.MaxCalls # -1 /\ count >= rule.MaxCalls

\* A Respond that stops at an exhausted rule without text responses and
\* answers with the fallback instead of going on to the next rule: not what
\* Respond does.
RECURSIVE RespondFromStop(_, _, _, _)
RespondFromStop(rs, counts, input, i) ==
    IF i > Len(rs)
    THEN { [response |-> TextResponse(MarkovText), rule |-> 0, counts |-> counts] }
    ELSE IF input \notin rs[i].Matches
    THEN RespondFromStop(rs, counts, input, i + 1)
    ELSE IF rs[i].ToolCall # NoToolCall
    THEN IF exhausted(rs[i], counts[i])
         THEN IF Len(rs[i].Responses) > 0
              THEN { [response |-> t, rule |-> i, counts |-> counts] : t \in TextChoices(rs[i], input) }
              ELSE { [response |-> TextResponse(MarkovText), rule |-> 0, counts |-> counts] }
         ELSE { [response |-> ToolCallResponse(resolveToolCall(rs[i].ToolCall, input)),
                 rule |-> i,
                 counts |-> IF rs[i].MaxCalls # -1 THEN [counts EXCEPT ![i] = counts[i] + 1] ELSE counts] }
    ELSE { [response |-> t, rule |-> i, counts |-> counts] : t \in TextChoices(rs[i], input) }

\* A Respond in which a later matching rule takes over from an earlier one
\* (the last match wins): not what Respond does.
RECURSIVE RespondFromLast(_, _, _, _)
RespondFromLast(rs, counts, input, i) ==
    IF i > Len(rs)
    THEN { [response |-> TextResponse(MarkovText), rule |-> 0, counts |-> counts] }
    ELSE IF input \notin rs[i].Matches \/ \E j \in (i + 1)..Len(rs) : input \in rs[j].Matches
    THEN RespondFromLast(rs, counts, input, i + 1)
    ELSE IF rs[i].ToolCall # NoToolCall
    THEN IF exhausted(rs[i], counts[i])
         THEN IF Len(rs[i].Responses) > 0
              THEN { [response |-> t, rule |-> i, counts |-> counts] : t \in TextChoices(rs[i], input) }
              ELSE RespondFromLast(rs, counts, input, i + 1)
         ELSE { [response |-> ToolCallResponse(resolveToolCall(rs[i].ToolCall, input)),
                 rule |-> i,
                 counts |-> IF rs[i].MaxCalls # -1 THEN [counts EXCEPT ![i] = counts[i] + 1] ELSE counts] }
    ELSE { [response |-> t, rule |-> i, counts |-> counts] : t \in TextChoices(rs[i], input) }

\* RuleResponder.Respond from rule index i on, with the call counts `counts`
\* (rule index -> tool call invocations): the set of possible results, each
\* the response, the index of the rule that answered (0: the fallback) and
\* the call counts left behind.
RECURSIVE RespondFrom(_, _, _, _)
RespondFrom(rs, counts, input, i) ==
    IF i > Len(rs)
    THEN { [response |-> TextResponse(MarkovText), rule |-> 0, counts |-> counts] }
    ELSE IF input \notin rs[i].Matches
    THEN RespondFrom(rs, counts, input, i + 1)
    ELSE IF rs[i].ToolCall # NoToolCall
    THEN IF exhausted(rs[i], counts[i])
         THEN IF Len(rs[i].Responses) > 0
              THEN { [response |-> t, rule |-> i, counts |-> counts] : t \in TextChoices(rs[i], input) }
              ELSE RespondFrom(rs, counts, input, i + 1)
         ELSE { [response |-> ToolCallResponse(resolveToolCall(rs[i].ToolCall, input)),
                 rule |-> i,
                 counts |-> IF rs[i].MaxCalls # -1 THEN [counts EXCEPT ![i] = counts[i] + 1] ELSE counts] }
    ELSE { [response |-> t, rule |-> i, counts |-> counts] : t \in TextChoices(rs[i], input) }

Respond(rs, counts, input) == RespondFrom(rs, counts, input, 1)

ZeroCounts(rs) == [i \in 1..Len(rs) |-> 0]

\* ------------------------------------------------------------------------
\* admin.go: adminState, adminResponder.
\* The live rule list holds rule instances: a rule and the number of tool
\* calls this instance has emitted.
\* ------------------------------------------------------------------------
LogLimit == 100

Instance(r) == [rule |-> r, calls |-> 0]

\* A fresh copy of a rule list (make + copy): new instances.
CopyRules(rs) == [i \in 1..Len(rs) |-> Instance(rs[i])]

\* An insertion that ignores the priority and always prepends: not what
\* addRules does.
prependRules(existing, new, priority) == new \o existing

\* addRules: priority 0 prepends, -1 appends, any other value inserts at
\* that index, clamped to [0, len].
addRules(existing, new, priority) ==
    IF priority = 0 THEN new \o existing
    ELSE IF priority = -1 THEN existing \o new
    ELSE LET idx0 == IF priority > Len(existing) THEN Len(existing) ELSE priority
             idx == IF idx0 < 0 THEN 0 ELSE idx0
         IN  SubSeq(existing, 1, idx) \o new \o SubSeq(existing, idx + 1, Len(existing))

\* A log that appends without ever dropping an entry: not what logRequest
\* does.
logRequestUnbounded(log, entry) == Append(log, entry)

\* logRequest appends an entry and keeps the last LogLimit.
logRequest(log, entry) ==
    LET l == Append(log, entry)
    IN  IF Len(l) > LogLimit THEN SubSeq(l, Len(l) - LogLimit + 1, Len(l)) ELSE l

\* matchRules from index i on: each rule of the live list in order, as the
\* rule engine treats it, with the instance's own counter. found is FALSE
\* when no rule answered.
RECURSIVE matchRulesFrom(_, _, _)
matchRulesFrom(live, input, i) ==
    IF i > Len(live)
    THEN { [found |-> FALSE, response |-> TextResponse(<<>>), matched |-> "", index |-> 0, rules |-> live] }
    ELSE LET r == live[i].rule IN
         IF input \notin r.Matches
         THEN matchRulesFrom(live, input, i + 1)
         ELSE IF r.ToolCall # NoToolCall
         THEN IF exhausted(r, live[i].calls)
              THEN IF Len(r.Responses) > 0
                   THEN { [found |-> TRUE, response |-> t, matched |-> r.Pattern, index |-> i, rules |-> live]
                          : t \in TextChoices(r, input) }
                   ELSE matchRulesFrom(live, input, i + 1)
              ELSE { [found |-> TRUE,
                      response |-> ToolCallResponse(resolveToolCall(r.ToolCall, input)),
                      matched |-> r.Pattern,
                      index |-> i,
                      rules |-> IF r.MaxCalls # -1
                                THEN [live EXCEPT ![i].calls = live[i].calls + 1]
                                ELSE live] }
         ELSE { [found |-> TRUE, response |-> t, matched |-> r.Pattern, index |-> i, rules |-> live]
                : t \in TextChoices(r, input) }

matchRules(live, input) == matchRulesFrom(live, input, 1)

\* adminResponder.Respond: the live list first; the fallback responder when
\* nothing matched or the matched text is empty. The results carry what the
\* call leaves in the live list, in lastMatchedRule and in the fallback's
\* call counts, and what the fallback did (rr).
NoRR == [called |-> FALSE, rule |-> 0, response |-> TextResponse(<<>>)]

adminRespond(live, rs, counts, input) ==
    UNION { IF IsToolCall(m.response) \/ m.response.Text # <<>>
            THEN { [response |-> m.response, matched |-> m.matched, index |-> m.index,
                    rules |-> m.rules, counts |-> counts, rr |-> NoRR] }
            ELSE { [response |-> o.response, matched |-> m.matched, index |-> 0,
                    rules |-> m.rules, counts |-> o.counts,
                    rr |-> [called |-> TRUE, rule |-> o.rule, response |-> o.response]]
                   : o \in Respond(rs, counts, input) }
          : m \in matchRules(live, input) }

\* The server's responder: the adminResponder when the admin API is enabled
\* (the default), the RuleResponder itself otherwise.
serverRespond(admin, live, rs, counts, input) ==
    IF admin
    THEN adminRespond(live, rs, counts, input)
    ELSE { [response |-> o.response, matched |-> "", index |-> 0, rules |-> live, counts |-> o.counts,
            rr |-> [called |-> TRUE, rule |-> o.rule, response |-> o.response]]
           : o \in Respond(rs, counts, input) }

\* The rules at whose max_calls check a Respond call arrived, given what the
\* call did (rr): the matching tool-call rules with max_calls up to the rule
\* that answered.
Arrivals(rs, input, rr) ==
    IF ~rr.called THEN {}
    ELSE { i \in 1..(IF rr.rule = 0 THEN Len(rs) ELSE rr.rule) :
             input \in rs[i].Matches /\ rs[i].ToolCall # NoToolCall /\ rs[i].MaxCalls # -1 }

\* ------------------------------------------------------------------------
\* server.go: requests and the tool-call filter of the handlers.
\* ------------------------------------------------------------------------
\* A message of a request: ToolResult says that it carries a tool result (an
\* OpenAI message of role "tool", an Anthropic tool_result block, a Gemini
\* functionResponse part), and Content is the text the conversion to
\* InternalMessage gives it.
Msg(role, content) == [Role |-> role, Content |-> content, ToolResult |-> FALSE]
ToolMsg(role, content) == [Role |-> role, Content |-> content, ToolResult |-> TRUE]

\* A request on one of the three protocols, streaming or not.
RequestOn(protocol, stream, messages, tools) ==
    [valid |-> TRUE, protocol |-> protocol, Stream |-> stream, Messages |-> messages, Tools |-> tools]

Request(valid, messages, tools) ==
    [valid |-> valid, protocol |-> "openai", Stream |-> FALSE, Messages |-> messages, Tools |-> tools]

ReqSearch == Request(TRUE, <<Msg("user", Search)>>, {})
ReqHello == Request(TRUE, <<Msg("user", Hello)>>, {"fetch_data"})
ReqSearchOther == Request(TRUE, <<Msg("user", Search), Msg("assistant", Hello)>>, {"other"})
ReqNoUser == Request(TRUE, <<Msg("system", Hello)>>, {})
ReqEmptyInput == Request(TRUE, <<Msg("user", Empty)>>, {})
ReqTwoUsers == Request(TRUE, <<Msg("user", Hello), Msg("user", Search), Msg("assistant", Hello)>>, {})
ReqNoMessages == Request(TRUE, <<>>, {})
ReqBadJSON == Request(FALSE, <<>>, {})

AllRequests ==
    {ReqSearch, ReqHello, ReqSearchOther, ReqNoUser, ReqEmptyInput, ReqTwoUsers, ReqNoMessages, ReqBadJSON}

\* The calls that name a declared tool (all of them when none is declared).
RECURSIVE validCalls(_, _)
validCalls(calls, tools) ==
    IF calls = <<>> THEN <<>>
    ELSE (IF Head(calls).Name \in tools THEN <<Head(calls)>> ELSE <<>>)
         \o validCalls(Tail(calls), tools)

\* What the handler writes for a response: the tool calls that survive the
\* declared-tools filter, or the response's text.
written(response, tools) ==
    IF IsToolCall(response)
    THEN IF tools # {}
         THEN IF validCalls(response.ToolCalls, tools) = <<>>
              THEN [kind |-> "text", Text |-> response.Text, ToolCalls |-> <<>>]
              ELSE [kind |-> "tool_calls", Text |-> <<>>, ToolCalls |-> validCalls(response.ToolCalls, tools)]
         ELSE [kind |-> "tool_calls", Text |-> <<>>, ToolCalls |-> response.ToolCalls]
    ELSE [kind |-> "text", Text |-> response.Text, ToolCalls |-> <<>>]

\* A decoding check that lets a request without messages through: not what
\* the handlers do.
rejectedBadJSON(req) == ~req.valid

\* The handlers' first checks: the body is not valid JSON, or the messages
\* (contents) array is empty: 400.
rejected(req) == ~req.valid \/ Len(req.Messages) = 0

\* What a handler writes for the response it ends with: handleGeminiStream
\* streams the tool calls of a tool-call response as they are; the other
\* handlers filter them by the declared tools.
writtenFor(req, response) ==
    IF req.protocol = "gemini" /\ req.Stream
    THEN IF IsToolCall(response)
         THEN [kind |-> "tool_calls", Text |-> <<>>, ToolCalls |-> response.ToolCalls]
         ELSE [kind |-> "text", Text |-> response.Text, ToolCalls |-> <<>>]
    ELSE written(response, req.Tools)

\* gemini.go: geminiHasToolResults: some content has a functionResponse part.
geminiHasToolResults(messages) == \E i \in 1..Len(messages) : messages[i].ToolResult

\* The handlers' hasToolResults: handleGeminiGenerate and handleGeminiStream
\* compute it; handleChatCompletions and handleMessages do not look for tool
\* results.
hasToolResults(req) == req.protocol = "gemini" /\ geminiHasToolResults(req.Messages)

\* toolcall.go: generateToolCallFromSchema: a call of one of the declared
\* tools, picked at random (no call when none is declared); the generated
\* arguments are left out.
generateToolCallFromSchema(tools) == { [Name |-> t, Arguments |-> <<>>] : t \in tools }

\* The generic text that stands in for a suppressed tool call.
ContinuationText == <<"continuation">>

\* forceTextResponse: the response with which a tool call is replaced when
\* the conversation holds tool results: the responder is invoked again and a
\* tool call it gives is replaced by the generic text.
forceTextResponse(again) ==
    IF IsToolCall(again.response) THEN TextResponse(ContinuationText) ELSE again.response

\* The history of the RuleResponder's tool calls and of the arrivals at the
\* max_calls checks after one Respond call that did rr.
Emit(em, rr) ==
    IF rr.called /\ IsToolCall(rr.response) THEN [em EXCEPT ![rr.rule] = @ + 1] ELSE em

Arrive(ar, rs, input, rr) ==
    [i \in DOMAIN ar |-> IF i \in Arrivals(rs, input, rr) THEN ar[i] + 1 ELSE ar[i]]

\* What a handler does between the fault evaluation and the log entry: the
\* responder, auto tool-calling, the suppression of tool calls. first is what
\* the responder did, last what its second invocation did (first when there
\* was none), final the response the handler goes on with.
respondAndAdjust(req, input, admin, auto, live, rs, counts) ==
    UNION {
        IF hasToolResults(req) /\ IsToolCall(o.response)
        THEN { [first |-> o, again |-> o2.rr, last |-> o2, final |-> forceTextResponse(o2)]
               : o2 \in serverRespond(admin, o.rules, rs, o.counts, input) }
        ELSE IF ~hasToolResults(req) /\ auto /\ ~IsToolCall(o.response) /\ req.Tools # {}
        THEN { [first |-> o, again |-> NoRR, last |-> o, final |-> ToolCallResponse(tc)]
               : tc \in generateToolCallFromSchema(req.Tools) }
        ELSE { [first |-> o, again |-> NoRR, last |-> o, final |-> o.response] }
      : o \in serverRespond(admin, live, rs, counts, input) }

\* ------------------------------------------------------------------------
\* The state of one server.
\* ------------------------------------------------------------------------
VARIABLES
    adminOn,          \* Server.adminEnabled (nil or true)
    autoToolCalls,    \* Server.autoToolCalls
    faults,           \* faultState.faults
    rules,            \* adminState.rules
    initialRules,     \* adminState.initialRules
    requestLog,       \* adminState.requestLog
    lastMatchedRule,  \* adminResponder.lastMatchedRule
    rrRules,          \* RuleResponder.rules
    callCounts,       \* RuleResponder.callCounts
    added,            \* history: the faults ever added, by id
    fired,            \* history: how often evaluate returned each fault
    reached,          \* history: how often evaluate's loop arrived at each fault
    emitted,          \* history: tool calls the RuleResponder emitted, by rule index
    arrived,          \* history: requests that came to a rule's max_calls check, by rule index
    revived,          \* history: patterns of the rules that were exhausted when a reset rebuilt the list
    op,               \* history: the last operation and what it saw
    nreq,             \* requests handled so far
    nadds,            \* rule additions so far
    faultMu,          \* faultState.mu: 0 when free, else the goroutine holding it
    rrMu,             \* RuleResponder.mu: 0 when free, else the goroutine holding it
    pc,               \* where each goroutine stands in evaluate / Respond
    loc,              \* each goroutine's local variables
    overlap,          \* history: a goroutine came to a mutex while another held it
    adminMu,          \* adminState.mu (sync.RWMutex): the writer holding it (0: none) and the readers
    seen,             \* history: every list that was the live rule list at some moment
    hpc,              \* where the handler of the connection stands
    ctxDone,          \* r.Context() of the connection is done: the client went away
    wire,             \* what the handler wrote to the connection, in order
    h,                \* the handler's local variables
    clock,            \* the wall clock time.Now() reads
    tokenDelay,       \* Server.tokenDelay in ms, 0 when never set
    opts,             \* the token delays given to New, by option or by config, in order
    stdio             \* StdioTransport.Run: the reader's lines, how many were read, the lines written, the return

faultVars == <<faults, added, fired, reached>>
adminVars == <<rules, initialRules, requestLog, lastMatchedRule, revived>>
rrVars == <<rrRules, callCounts, emitted, arrived>>
procVars == <<faultMu, rrMu, pc, loc, overlap>>
snapVars == <<adminMu, seen>>
optVars == <<adminOn, autoToolCalls, tokenDelay, opts>>
connVars == <<hpc, ctxDone, wire, h>>
vars == <<optVars, clock, stdio, connVars, faultVars, adminVars, rrVars, op, nreq, nadds, procVars, snapVars>>

Procs == 1..NProcs

NoLocals ==
    [i |-> 0, input |-> <<>>, ok |-> FALSE, id |-> 0, cp |-> <<>>, call |-> "",
     own |-> "", matched |-> "", ts |-> 0, response |-> <<>>]

NoEval == [ok |-> FALSE, index |-> 0, id |-> 0, fault |-> Fault("", 0, 0, 0)]

OpBlank ==
    [name |-> "init", req |-> ReqNoMessages, outcome |-> "",
     d |-> <<>>, disconnect |-> FALSE, ev |-> NoEval,
     response |-> TextResponse(<<>>), matched |-> "", index |-> 0, rr |-> NoRR,
     out |-> [kind |-> "", Text |-> <<>>, ToolCalls |-> <<>>],
     new |-> <<>>, priority |-> 0, before |-> <<0, 0, 0>>,
     again |-> NoRR, final |-> TextResponse(<<>>), input |-> Empty,
     text |-> <<>>, chunks |-> <<>>, wait |-> 0,
     order |-> 0, maxTokens |-> 0, corpus |-> <<>>, entries |-> <<>>,
     rpc |-> [transport |-> "", body |-> "", jsonrpc |-> "", id |-> 0, method |-> "",
              paramsOK |-> TRUE, name |-> "",
              args |-> [pattern |-> "none", responses |-> "none", priority |-> 0, type |-> ""]],
     reply |-> [id |-> 0, code |-> 0, result |-> FALSE, isError |-> FALSE]]

\* The handler's locals before a request is read.
NoHandler ==
    [req |-> ReqNoMessages, id |-> 0, fault |-> Fault("", 0, 0, 0), fid |-> 0, left |-> <<>>,
     responded |-> FALSE, kind |-> "", text |-> <<>>, chunks |-> <<>>,
     events |-> <<>>, pauses |-> {}, i |-> 0, wake |-> "", cancel |-> ""]

\* The state New(opts...) builds: WithAdminAPI, WithAutoToolCalls,
\* WithRules, WithFault.
InitServer(adminChoices, autoChoices, baselines, startFaults) ==
    /\ adminOn \in adminChoices
    /\ autoToolCalls \in autoChoices
    /\ \E b \in baselines :
        /\ rrRules = b
        /\ initialRules = b
        /\ rules = IF adminOn THEN CopyRules(b) ELSE <<>>
        /\ callCounts = ZeroCounts(b)
        /\ emitted = ZeroCounts(b)
        /\ arrived = ZeroCounts(b)
    /\ \E fs \in startFaults :
        /\ added = fs
        /\ faults = [i \in 1..Len(fs) |-> Active(fs[i], i)]
        /\ fired = [i \in 1..Len(fs) |-> 0]
        /\ reached = [i \in 1..Len(fs) |-> 0]
    /\ requestLog = <<>>
    /\ lastMatchedRule = ""
    /\ revived = {}
    /\ op = OpBlank
    /\ nreq = 0
    /\ nadds = 0
    /\ faultMu = 0
    /\ rrMu = 0
    /\ pc = [p \in Procs |-> "idle"]
    /\ loc = [p \in Procs |-> NoLocals]
    /\ overlap = FALSE
    /\ adminMu = [w |-> 0, r |-> {}]
    /\ seen = {rules}
    /\ hpc = "idle"
    /\ ctxDone = FALSE
    /\ wire = <<>>
    /\ h = NoHandler
    /\ clock = 0
    /\ tokenDelay = 0
    /\ opts = <<>>
    /\ stdio = [input |-> <<>>, pos |-> 0, out |-> <<>>, ret |-> ""]

\* A server without auto tool-calling (the default).
InitWith(adminChoices, baselines, startFaults) ==
    InitServer(adminChoices, {FALSE}, baselines, startFaults)

\* The variates evaluate drew: none behind the firing fault, and none for a
\* fault of probability 1 (recorded as 0).
Drawn(fs, d, ev) ==
    [j \in 1..(IF ev.ok THEN ev.index ELSE Len(fs)) |->
        IF fs[j].Fault.Probability > 0 /\ fs[j].Fault.Probability < 100 THEN d[j] ELSE 0]

\* handleChatCompletions / handleMessages / handleGeminiGenerate: decode,
\* evaluate the faults, invoke the responder, log, write. The clock of a log
\* entry's Timestamp is the number of the request.
HandleRequest(requests, maxRequests) ==
    /\ nreq < maxRequests
    /\ nreq' = nreq + 1
    /\ UNCHANGED <<optVars, clock, stdio, connVars, initialRules, rrRules, added, revived, nadds, procVars, snapVars>>
    /\ \E req \in requests :
        IF rejected(req)
        THEN /\ UNCHANGED <<faults, fired, reached, rules, requestLog, lastMatchedRule, callCounts, emitted, arrived>>
             /\ op' = [OpBlank EXCEPT !.name = "request", !.req = req, !.outcome = "bad_request"]
        ELSE \E d \in [1..Len(faults) -> Variates], disc \in BOOLEAN :
             LET ev == evaluate(faults, d)
                 waits == ev.ok /\ ev.fault.Type = FaultDelay /\ ev.fault.DelayMS > 0
                 handled == ev.ok /\ executeFault(ev.fault, disc)
                 input == extractInput(req.Messages)
                 last == IF ev.ok THEN ev.index ELSE Len(faults)
                 base == [OpBlank EXCEPT !.name = "request", !.req = req, !.input = input,
                                        !.d = Drawn(faults, d, ev), !.disconnect = disc,
                                        !.ev = [ok |-> ev.ok, index |-> ev.index, id |-> ev.id, fault |-> ev.fault]]
             IN  /\ (disc => waits)
                 /\ faults' = ev.faults
                 /\ fired' = IF ev.ok THEN [fired EXCEPT ![ev.id] = @ + 1] ELSE fired
                 /\ reached' = [id \in DOMAIN reached |->
                                  IF \E j \in 1..last : faults[j].id = id
                                  THEN reached[id] + 1 ELSE reached[id]]
                 /\ IF handled
                    THEN /\ UNCHANGED <<rules, requestLog, lastMatchedRule, callCounts, emitted, arrived>>
                         /\ op' = [base EXCEPT !.outcome = "fault"]
                    ELSE IF input = Empty
                    THEN /\ UNCHANGED <<rules, requestLog, lastMatchedRule, callCounts, emitted, arrived>>
                         /\ op' = [base EXCEPT !.outcome = "no_messages"]
                    ELSE \E a \in respondAndAdjust(req, input, adminOn, autoToolCalls, rules, rrRules, callCounts) :
                         /\ rules' = a.last.rules
                         /\ callCounts' = a.last.counts
                         /\ lastMatchedRule' = IF adminOn THEN a.last.matched ELSE lastMatchedRule
                         /\ requestLog' = IF adminOn
                                          THEN logRequest(requestLog,
                                                 [Timestamp |-> nreq + 1, UserMessage |-> input,
                                                  MatchedRule |-> a.last.matched, Response |-> a.final.Text])
                                          ELSE requestLog
                         /\ emitted' = Emit(Emit(emitted, a.first.rr), a.again)
                         /\ arrived' = Arrive(Arrive(arrived, rrRules, input, a.first.rr), rrRules, input, a.again)
                         /\ op' = [base EXCEPT !.outcome = "ok", !.response = a.first.response,
                                               !.matched = a.last.matched, !.index = a.first.index,
                                               !.rr = a.first.rr, !.again = a.again, !.final = a.final,
                                               !.out = writtenFor(req, a.final)]

\* The patterns of the live instances that have used up their max_calls.
Exhausted(live) ==
    { live[i].rule.Pattern : i \in { j \in 1..Len(live) :
          live[j].rule.MaxCalls # -1 /\ live[j].calls >= live[j].rule.MaxCalls } }

\* What a reset found: the lengths of the rule list, the fault list and
\* the request log.
Found == <<Len(rules), Len(faults), Len(requestLog)>>

Resets == {"resetRules", "fullReset"}

\* The rules of the live instances, in order.
RuleList(live) == [i \in 1..Len(live) |-> live[i].rule]

\* A reset that leaves the live list as it is: not what resetRules does.
keepRules(existing, initial) == existing

\* A reset that rebuilds the list from the initial rules but hands each rule
\* the counter of the live instance with the same pattern: not what
\* resetRules does.
resetRulesKeepCounts(existing, initial) ==
    [i \in 1..Len(initial) |->
        [rule |-> initial[i],
         calls |-> IF \E j \in 1..Len(existing) : existing[j].rule = initial[i]
                   THEN existing[CHOOSE j \in 1..Len(existing) : existing[j].rule = initial[i]].calls
                   ELSE 0]]

\* resetRules: the live list becomes a fresh copy of the initial rules.
resetRules(existing, initial) == CopyRules(initial)

\* An insertion that also makes the new list the list resets go back to: not
\* what POST /_mock/rules does.
AddRulesToBaseline(batches, priorities, maxAdds) ==
    /\ adminOn
    /\ nadds < maxAdds
    /\ nadds' = nadds + 1
    /\ \E new \in batches, priority \in priorities :
        /\ rules' = addRules(rules, CopyRules(new), priority)
        /\ initialRules' = RuleList(rules')
        /\ op' = [OpBlank EXCEPT !.name = "addRules", !.new = new, !.priority = priority]
    /\ UNCHANGED <<optVars, clock, stdio, connVars, faultVars, rrVars, requestLog, lastMatchedRule, revived, nreq, procVars, snapVars>>

\* POST /_mock/rules and llmock_add_rule: addRules with the compiled batch.
AddRules(batches, priorities, maxAdds) ==
    /\ adminOn
    /\ nadds < maxAdds
    /\ nadds' = nadds + 1
    /\ \E new \in batches, priority \in priorities :
        /\ rules' = addRules(rules, CopyRules(new), priority)
        /\ op' = [OpBlank EXCEPT !.name = "addRules", !.new = new, !.priority = priority]
    /\ UNCHANGED <<optVars, clock, stdio, connVars, faultVars, rrVars, initialRules, requestLog, lastMatchedRule, revived, nreq, procVars, snapVars>>

\* DELETE /_mock/rules and llmock_reset_rules.
ResetRules ==
    /\ adminOn
    /\ rules' = resetRules(rules, initialRules)
    /\ revived' = revived \cup Exhausted(rules)
    /\ op' = [OpBlank EXCEPT !.name = "resetRules", !.before = Found]
    /\ UNCHANGED <<optVars, clock, stdio, connVars, faultVars, rrVars, initialRules, requestLog, lastMatchedRule, nreq, nadds, procVars, snapVars>>

\* A full reset that clears the faults as well: not what POST /_mock/reset
\* does.
FullResetClearingFaults ==
    /\ adminOn
    /\ rules' = resetRules(rules, initialRules)
    /\ requestLog' = <<>>
    /\ faults' = <<>>
    /\ revived' = revived \cup Exhausted(rules)
    /\ op' = [OpBlank EXCEPT !.name = "fullReset", !.before = Found]
    /\ UNCHANGED <<optVars, clock, stdio, connVars, added, fired, reached, rrVars, initialRules, lastMatchedRule, nreq, nadds, procVars, snapVars>>

\* POST /_mock/reset: fullReset restores the rules and clears the request log.
FullReset ==
    /\ adminOn
    /\ rules' = resetRules(rules, initialRules)
    /\ requestLog' = <<>>
    /\ revived' = revived \cup Exhausted(rules)
    /\ op' = [OpBlank EXCEPT !.name = "fullReset", !.before = Found]
    /\ UNCHANGED <<optVars, clock, stdio, connVars, faultVars, rrVars, initialRules, lastMatchedRule, nreq, nadds, procVars, snapVars>>

\* DELETE /_mock/requests and llmock_clear_requests.
ClearRequests ==
    /\ adminOn
    /\ requestLog # <<>>
    /\ requestLog' = <<>>
    /\ op' = [OpBlank EXCEPT !.name = "clearRequests"]
    /\ UNCHANGED <<optVars, clock, stdio, connVars, faultVars, rrVars, rules, initialRules, lastMatchedRule, revived, nreq, nadds, procVars, snapVars>>

\* POST /_mock/faults and llmock_add_fault.
AddFaults(choices, maxAdds) ==
    /\ adminOn
    /\ Len(added) < maxAdds
    /\ \E f \in choices :
        /\ faults' = addFaults(faults, f, Len(added) + 1)
        /\ added' = Append(added, f)
    /\ fired' = Append(fired, 0)
    /\ reached' = Append(reached, 0)
    /\ op' = [OpBlank EXCEPT !.name = "addFaults"]
    /\ UNCHANGED <<optVars, clock, stdio, connVars, adminVars, rrVars, nreq, nadds, procVars, snapVars>>

\* DELETE /_mock/faults and llmock_clear_faults: clear.
ClearFaults ==
    /\ adminOn
    /\ faults # <<>>
    /\ faults' = <<>>
    /\ op' = [OpBlank EXCEPT !.name = "clearFaults"]
    /\ UNCHANGED <<optVars, clock, stdio, connVars, added, fired, reached, adminVars, rrVars, nreq, nadds, procVars, snapVars>>

\* A reset that stops after fullReset and leaves the faults: not what
\* callReset does.
CallResetWithoutClear ==
    /\ adminOn
    /\ rules' = resetRules(rules, initialRules)
    /\ requestLog' = <<>>
    /\ revived' = revived \cup Exhausted(rules)
    /\ op' = [OpBlank EXCEPT !.name = "llmock_reset", !.before = Found]
    /\ UNCHANGED <<optVars, clock, stdio, connVars, faultVars, rrVars, initialRules, lastMatchedRule, nreq, nadds, procVars, snapVars>>

\* llmock_reset: callReset is fullReset, then clear.
CallReset ==
    /\ adminOn
    /\ rules' = resetRules(rules, initialRules)
    /\ requestLog' = <<>>
    /\ faults' = <<>>
    /\ revived' = revived \cup Exhausted(rules)
    /\ op' = [OpBlank EXCEPT !.name = "llmock_reset", !.before = Found]
    /\ UNCHANGED <<optVars, clock, stdio, connVars, added, fired, reached, rrVars, initialRules, lastMatchedRule, nreq, nadds, procVars, snapVars>>

\* ------------------------------------------------------------------------
\* Goroutines: evaluate and Respond step by step, as concurrent requests run
\* them. A sync.Mutex is 0 when free, else the goroutine that holds it.
\* ------------------------------------------------------------------------

\* A Lock that never waits: not what sync.Mutex does.
CanLockAnyway(m) == TRUE

\* mu.Lock() returns only when the mutex is free.
CanLock(m) == m = 0

Return(p) ==
    /\ pc' = [pc EXCEPT ![p] = "idle"]
    /\ loc' = [loc EXCEPT ![p] = NoLocals]

\* A handler calls s.faults.evaluate().
EvalCall(p) ==
    /\ pc[p] = "idle"
    /\ nreq < MaxRequests
    /\ nreq' = nreq + 1
    /\ pc' = [pc EXCEPT ![p] = "lock"]
    /\ overlap' = (overlap \/ faultMu # 0)
    /\ UNCHANGED <<optVars, clock, stdio, connVars, faultVars, adminVars, snapVars, rrVars, op, nadds, faultMu, rrMu, loc>>

\* fs.mu.Lock()
EvalLock(p) ==
    /\ pc[p] = "lock"
    /\ CanLock(faultMu)
    /\ faultMu' = p
    /\ pc' = [pc EXCEPT ![p] = "loop"]
    /\ loc' = [loc EXCEPT ![p] = [NoLocals EXCEPT !.i = 1]]
    /\ UNCHANGED <<optVars, clock, stdio, connVars, faultVars, adminVars, snapVars, rrVars, op, nreq, nadds, rrMu, overlap>>

\* One iteration of evaluate's loop: the probability test on fs.faults[i],
\* or the end of the loop.
EvalLoop(p) ==
    /\ pc[p] = "loop"
    /\ LET i == loc[p].i IN
        IF i > Len(faults)
        THEN /\ pc' = [pc EXCEPT ![p] = "unlock"]
             /\ UNCHANGED <<loc, reached>>
        ELSE /\ reached' = [reached EXCEPT ![faults[i].id] = @ + 1]
             /\ \E v \in Variates :
                  IF Skipped(faults[i], v)
                  THEN /\ loc' = [loc EXCEPT ![p].i = i + 1]
                       /\ UNCHANGED pc
                  ELSE /\ loc' = [loc EXCEPT ![p].ok = TRUE, ![p].id = faults[i].id]
                       /\ pc' = [pc EXCEPT ![p] = "count"]
    /\ UNCHANGED <<optVars, clock, stdio, connVars, faults, added, fired, adminVars, snapVars, rrVars, op, nreq, nadds, faultMu, rrMu, overlap>>

\* result := f.Fault, then the decrement and the removal on fs.faults[i].
EvalCount(p) ==
    /\ pc[p] = "count"
    /\ faults' = IF loc[p].i <= Len(faults) THEN Consume(faults, loc[p].i) ELSE faults
    /\ pc' = [pc EXCEPT ![p] = "unlock"]
    /\ UNCHANGED <<optVars, clock, stdio, connVars, added, fired, reached, adminVars, snapVars, rrVars, op, nreq, nadds, faultMu, rrMu, loc, overlap>>

\* The deferred fs.mu.Unlock() and the return of the result.
EvalUnlock(p) ==
    /\ pc[p] = "unlock"
    /\ faultMu' = 0
    /\ fired' = IF loc[p].ok THEN [fired EXCEPT ![loc[p].id] = @ + 1] ELSE fired
    /\ Return(p)
    /\ UNCHANGED <<optVars, clock, stdio, connVars, faults, added, reached, adminVars, snapVars, rrVars, op, nreq, nadds, rrMu, overlap>>

\* A handler calls RuleResponder.Respond with a non-empty input.
RespCall(p, inputs) ==
    /\ pc[p] = "idle"
    /\ nreq < MaxRequests
    /\ nreq' = nreq + 1
    /\ \E input \in inputs :
        loc' = [loc EXCEPT ![p] = [NoLocals EXCEPT !.i = 1, !.input = input]]
    /\ pc' = [pc EXCEPT ![p] = "match"]
    /\ UNCHANGED <<optVars, clock, stdio, connVars, faultVars, adminVars, snapVars, rrVars, op, nadds, faultMu, rrMu, overlap>>

\* One iteration of Respond's loop up to the max_calls check, or the
\* fallback after the loop.
RespMatch(p) ==
    /\ pc[p] = "match"
    /\ LET i == loc[p].i IN
        IF i > Len(rrRules)
        THEN /\ Return(p)
             /\ UNCHANGED <<emitted, overlap>>
        ELSE IF loc[p].input \notin rrRules[i].Matches
        THEN /\ loc' = [loc EXCEPT ![p].i = i + 1]
             /\ UNCHANGED <<pc, emitted, overlap>>
        ELSE IF rrRules[i].ToolCall # NoToolCall
        THEN IF rrRules[i].MaxCalls # -1
             THEN /\ pc' = [pc EXCEPT ![p] = "lock"]
                  /\ overlap' = (overlap \/ rrMu # 0)
                  /\ UNCHANGED <<loc, emitted>>
             ELSE /\ emitted' = [emitted EXCEPT ![i] = @ + 1]
                  /\ Return(p)
                  /\ UNCHANGED overlap
        ELSE /\ Return(p)
             /\ UNCHANGED <<emitted, overlap>>
    /\ UNCHANGED <<optVars, clock, stdio, connVars, faultVars, adminVars, snapVars, rrRules, callCounts, arrived, op, nreq, nadds, faultMu, rrMu>>

\* r.mu.Lock()
RespLock(p) ==
    /\ pc[p] = "lock"
    /\ CanLock(rrMu)
    /\ rrMu' = p
    /\ pc' = [pc EXCEPT ![p] = "check"]
    /\ UNCHANGED <<optVars, clock, stdio, connVars, faultVars, adminVars, snapVars, rrVars, op, nreq, nadds, faultMu, loc, overlap>>

\* count := r.callCounts[i] and the test against *rule.MaxCalls; on an
\* exhausted rule the unlock, then a text response or the next rule.
RespCheck(p) ==
    /\ pc[p] = "check"
    /\ LET i == loc[p].i IN
        /\ arrived' = [arrived EXCEPT ![i] = @ + 1]
        /\ IF exhausted(rrRules[i], callCounts[i])
           THEN /\ rrMu' = 0
                /\ IF Len(rrRules[i].Responses) > 0
                   THEN Return(p)
                   ELSE /\ loc' = [loc EXCEPT ![p].i = i + 1]
                        /\ pc' = [pc EXCEPT ![p] = "match"]
           ELSE /\ pc' = [pc EXCEPT ![p] = "incr"]
                /\ UNCHANGED <<rrMu, loc>>
    /\ UNCHANGED <<optVars, clock, stdio, connVars, faultVars, adminVars, snapVars, rrRules, callCounts, emitted, op, nreq, nadds, faultMu, overlap>>

\* r.callCounts[i]++, the unlock and the return of the tool call.
RespIncr(p) ==
    /\ pc[p] = "incr"
    /\ callCounts' = [callCounts EXCEPT ![loc[p].i] = @ + 1]
    /\ emitted' = [emitted EXCEPT ![loc[p].i] = @ + 1]
    /\ rrMu' = 0
    /\ Return(p)
    /\ UNCHANGED <<optVars, clock, stdio, connVars, faultVars, adminVars, snapVars, rrRules, arrived, op, nreq, nadds, faultMu, overlap>>

\* A read lock that never waits: not what sync.RWMutex does.
CanRLockAnyway(m) == TRUE

\* mu.RLock() returns only when no writer holds the mutex.
CanRLock(m) == m.w = 0

\* mu.Lock() on a RWMutex returns only when no writer and no reader holds it.
CanWLock(m) == m.w = 0 /\ m.r = {}

\* The zero Rule of a freshly made slice.
ZeroRule == Instance(Rule("", {}, <<>>, NoToolCall, -1))

\* A caller asks for adminState.snapshot().
SnapCall(p) ==
    /\ pc[p] = "idle"
    /\ nreq < SnapMaxCalls
    /\ nreq' = nreq + 1
    /\ pc' = [pc EXCEPT ![p] = "rlock"]
    /\ loc' = [loc EXCEPT ![p] = [NoLocals EXCEPT !.call = "snapshot"]]
    /\ overlap' = (overlap \/ adminMu.w # 0)
    /\ UNCHANGED <<optVars, clock, stdio, connVars, faultVars, adminVars, rrVars, op, nadds, faultMu, rrMu, snapVars>>

\* a.mu.RLock()
SnapRLock(p) ==
    /\ pc[p] = "rlock"
    /\ CanRLock(adminMu)
    /\ adminMu' = [adminMu EXCEPT !.r = @ \cup {p}]
    /\ pc' = [pc EXCEPT ![p] = "make"]
    /\ UNCHANGED <<optVars, clock, stdio, connVars, faultVars, adminVars, rrVars, op, nreq, nadds, faultMu, rrMu, loc, overlap, seen>>

\* cp := make([]Rule, len(a.rules))
SnapMake(p) ==
    /\ pc[p] = "make"
    /\ loc' = [loc EXCEPT ![p].cp = [j \in 1..Len(rules) |-> ZeroRule]]
    /\ pc' = [pc EXCEPT ![p] = "copy"]
    /\ UNCHANGED <<optVars, clock, stdio, connVars, faultVars, adminVars, rrVars, op, nreq, nadds, faultMu, rrMu, overlap, snapVars>>

\* copy(cp, a.rules): the first min(len(cp), len(a.rules)) elements.
SnapCopy(p) ==
    /\ pc[p] = "copy"
    /\ loc' = [loc EXCEPT ![p].cp =
                 [j \in 1..Len(loc[p].cp) |-> IF j <= Len(rules) THEN rules[j] ELSE loc[p].cp[j]]]
    /\ pc' = [pc EXCEPT ![p] = "runlock"]
    /\ UNCHANGED <<optVars, clock, stdio, connVars, faultVars, adminVars, rrVars, op, nreq, nadds, faultMu, rrMu, overlap, snapVars>>

\* The deferred a.mu.RUnlock() and the return of the copy.
SnapRUnlock(p) ==
    /\ pc[p] = "runlock"
    /\ adminMu' = [adminMu EXCEPT !.r = @ \ {p}]
    /\ op' = [OpBlank EXCEPT !.name = "snapshot", !.new = loc[p].cp]
    /\ Return(p)
    /\ UNCHANGED <<optVars, clock, stdio, connVars, faultVars, adminVars, rrVars, nreq, nadds, faultMu, rrMu, overlap, seen>>

\* A caller asks for addRules, resetRules or fullReset.
WriteCall(p, batches, priorities) ==
    /\ pc[p] = "idle"
    /\ nreq < SnapMaxCalls
    /\ nreq' = nreq + 1
    /\ pc' = [pc EXCEPT ![p] = "wlock"]
    /\ \/ \E new \in batches, priority \in priorities :
            loc' = [loc EXCEPT ![p] = [NoLocals EXCEPT !.call = "addRules", !.cp = CopyRules(new), !.i = priority]]
       \/ \E call \in Resets :
            loc' = [loc EXCEPT ![p] = [NoLocals EXCEPT !.call = call]]
    /\ overlap' = (overlap \/ adminMu.w # 0 \/ adminMu.r # {})
    /\ UNCHANGED <<optVars, clock, stdio, connVars, faultVars, adminVars, rrVars, op, nadds, faultMu, rrMu, snapVars>>

\* a.mu.Lock()
WriteLock(p) ==
    /\ pc[p] = "wlock"
    /\ CanWLock(adminMu)
    /\ adminMu' = [adminMu EXCEPT !.w = p]
    /\ pc' = [pc EXCEPT ![p] = "apply"]
    /\ UNCHANGED <<optVars, clock, stdio, connVars, faultVars, adminVars, rrVars, op, nreq, nadds, faultMu, rrMu, loc, overlap, seen>>

\* The assignment to a.rules (and to a.requestLog in fullReset).
WriteApply(p) ==
    /\ pc[p] = "apply"
    /\ rules' = IF loc[p].call = "addRules"
                 THEN addRules(rules, loc[p].cp, loc[p].i)
                 ELSE resetRules(rules, initialRules)
    /\ requestLog' = IF loc[p].call = "fullReset" THEN <<>> ELSE requestLog
    /\ seen' = seen \cup {rules'}
    /\ pc' = [pc EXCEPT ![p] = "wunlock"]
    /\ UNCHANGED <<optVars, clock, stdio, connVars, faultVars, initialRules, lastMatchedRule, revived, rrVars, op, nreq, nadds,
                   faultMu, rrMu, loc, overlap, adminMu>>

\* The deferred a.mu.Unlock().
WriteUnlock(p) ==
    /\ pc[p] = "wunlock"
    /\ adminMu' = [adminMu EXCEPT !.w = 0]
    /\ Return(p)
    /\ UNCHANGED <<optVars, clock, stdio, connVars, faultVars, adminVars, rrVars, op, nreq, nadds, faultMu, rrMu, overlap, seen>>

\* ------------------------------------------------------------------------
\* Spec: one server with the admin API, its handlers running one at a time:
\* requests, rule and fault injection, and the three resets.
\* ------------------------------------------------------------------------
SpecBaselines == { <<RuleToolOnly, RuleCatchAll>> }
SpecRequests == {ReqSearch}
SpecFaultChoices == {Fault(FaultError, 0, 2, 0), Fault(FaultDelay, 50, 0, 5)}
SpecBatches == {<<RuleHello>>}
SpecPriorities == {0, -1}

Init == InitWith({TRUE}, SpecBaselines, {<<>>})

Next ==
    \/ HandleRequest(SpecRequests, SpecMaxRequests)
    \/ AddRules(SpecBatches, SpecPriorities, SpecMaxRuleAdds)
    \/ ResetRules
    \/ FullReset
    \/ ClearRequests
    \/ AddFaults(SpecFaultChoices, SpecMaxFaultAdds)
    \/ ClearFaults
    \/ CallReset

Spec == Init /\ [][Next]_vars

C5_ControlResetRestoresAll ==
    op.name = "llmock_reset" =>
        /\ RuleList(rules) = initialRules
        /\ initialRules \in SpecBaselines
        /\ faults = <<>>
        /\ requestLog = <<>>

\* llmock_reset has just run on a server that had an added rule, an active
\* fault and a logged request.
C5_Witness ==
    /\ op.name = "llmock_reset"
    /\ op.before[1] > Len(initialRules)
    /\ op.before[2] > 0
    /\ op.before[3] > 0
    /\ Len(rules) = Len(initialRules)

\* ------------------------------------------------------------------------
\* SpecFaults: the fault engine under requests, fault injection and clear.
\* ------------------------------------------------------------------------
FaultsBaselines == { <<RuleCatchAll>> }
FaultsRequests == {ReqHello}

InitFaults == InitWith({TRUE}, FaultsBaselines, {<<>>, <<Fault(FaultRateLimit, 100, 1, 0)>>})

NextFaults ==
    \/ HandleRequest(FaultsRequests, FaultsMaxRequests)
    \/ AddFaults(FaultChoices, MaxFaultAdds)
    \/ ClearFaults

SpecFaults == InitFaults /\ [][NextFaults]_vars

\* The positions of the fault with serial number id in the active list.
Live(id) == { j \in 1..Len(faults) : faults[j].id = id }

Certain(f) == f.Probability = 0 \/ f.Probability = 100

\* C1: a fault added with count N > 0 and probability unset or 1 fires on
\* every request whose evaluation reaches it, at most N times; while it is in
\* the list its remaining count is N minus the times it fired, and once it
\* has fired N times it is out of the list (so it is reached and fires no more).
C1_CountedFaultFiresFirstN ==
    \A id \in 1..Len(added) :
        (added[id].Count > 0 /\ Certain(added[id])) =>
            /\ fired[id] = reached[id]
            /\ fired[id] <= added[id].Count
            /\ \A j \in Live(id) :
                  /\ faults[j].remaining = added[id].Count - fired[id]
                  /\ fired[id] < added[id].Count
            /\ (fired[id] = added[id].Count => Live(id) = {})

\* A fault of count 2 has fired twice, is gone, and a later request was
\* evaluated without it.
C1_Witness ==
    \E id \in 1..Len(added) :
        /\ added[id].Count = 2 /\ Certain(added[id])
        /\ fired[id] = 2
        /\ Live(id) = {}
        /\ op.name = "request" /\ op.outcome = "ok"
        /\ (op.ev.ok => op.ev.id # id)

\* The active faults other than the one with serial number id, in order.
Others(fs, id) == SelectSeq(fs, LAMBDA a : a.id # id)

\* C3: a request's evaluate returns the first fault, in list order, whose
\* draw passes (every fault before it was skipped; none is returned when all
\* were skipped), and changes no other fault: the others keep their remaining
\* counts and their order. The list is in insertion order.
C3_OnlyFirstPassingFaultChanges ==
    [][ (op'.name = "request" /\ op'.outcome # "bad_request" /\ nreq' # nreq) =>
          LET ev == op'.ev
              d == op'.d
          IN  /\ \A j \in 1..Len(faults) : \A k \in 1..Len(faults) :
                    j < k => faults[j].id < faults[k].id
              /\ IF ev.ok
                 THEN /\ ev.index \in 1..Len(faults)
                      /\ \A j \in 1..(ev.index - 1) : Skipped(faults[j], d[j])
                      /\ ~Skipped(faults[ev.index], d[ev.index])
                      /\ ev.fault = faults[ev.index].Fault
                      /\ ev.id = faults[ev.index].id
                      /\ Others(faults', ev.id) = Others(faults, ev.id)
                      /\ fired' = [fired EXCEPT ![ev.id] = fired[ev.id] + 1]
                 ELSE /\ \A j \in 1..Len(faults) : Skipped(faults[j], d[j])
                      /\ faults' = faults
                      /\ fired' = fired
    ]_vars

\* A request fired the second of three faults: the first was skipped and is
\* still there, the third was not reached and is still there.
C3_Witness ==
    /\ op.name = "request" /\ op.ev.ok /\ op.ev.index = 2
    /\ \E j \in 1..Len(faults) : faults[j].id < op.ev.id
    /\ \E j \in 1..Len(faults) : faults[j].id > op.ev.id /\ faults[j].remaining > 0

\* ------------------------------------------------------------------------
\* SpecEval: concurrent requests in evaluate.
\* ------------------------------------------------------------------------
EvalStartFaults ==
    { <<Fault(FaultError, 0, 2, 0)>>,
      <<Fault(FaultRateLimit, 100, 1, 0), Fault(FaultError, 0, 2, 0)>>,
      <<Fault(FaultTimeout, 50, 1, 0), Fault(FaultMalformed, 50, 2, 0)>>,
      <<Fault(FaultDelay, 50, 0, 5), Fault(FaultRateLimit, 100, 1, 0)>> }

InitEval == InitWith({TRUE}, FaultsBaselines, EvalStartFaults)

NextEval ==
    \E p \in Procs :
        \/ EvalCall(p)
        \/ EvalLock(p)
        \/ EvalLoop(p)
        \/ EvalCount(p)
        \/ EvalUnlock(p)

SpecEval == InitEval /\ [][NextEval]_vars

\* The goroutines between evaluate's Lock and Unlock.
InEvaluate == { p \in Procs : pc[p] \in {"loop", "count", "unlock"} }

\* C2: at most one goroutine is between evaluate's Lock and Unlock; and
\* whenever none is, every fault with count N > 0 has been returned to at
\* most N calls, its remaining count in the list is N minus the calls it was
\* returned to (no decrement is lost), it is out of the list exactly when it
\* was returned N times, and a fault of probability unset or 1 was returned to
\* every call that reached it.
C2_EvaluateIsAtomic ==
    /\ Cardinality(InEvaluate) <= 1
    /\ InEvaluate = {} =>
          \A id \in 1..Len(added) :
              added[id].Count > 0 =>
                  /\ fired[id] <= added[id].Count
                  /\ \A j \in Live(id) : faults[j].remaining = added[id].Count - fired[id]
                  /\ (Live(id) = {} <=> fired[id] = added[id].Count)
                  /\ Cardinality(Live(id)) <= 1
                  /\ (Certain(added[id]) => fired[id] = reached[id])

\* Calls that met at the mutex are over: the fault with count 2 was returned
\* to two of the three calls and is gone.
C2_Witness ==
    /\ overlap
    /\ \A p \in Procs : pc[p] = "idle"
    /\ nreq >= 3
    /\ Len(added) = 1 /\ added[1].Count = 2
    /\ fired[1] = 2
    /\ faults = <<>>

\* ------------------------------------------------------------------------
\* SpecRespond: concurrent requests in RuleResponder.Respond.
\* ------------------------------------------------------------------------
RespondInputs == {Search, Hello}

InitRespond == InitWith({FALSE}, Baselines, {<<>>})

NextRespond ==
    \E p \in Procs :
        \/ RespCall(p, RespondInputs)
        \/ RespMatch(p)
        \/ RespLock(p)
        \/ RespCheck(p)
        \/ RespIncr(p)

SpecRespond == InitRespond /\ [][NextRespond]_vars

\* The goroutines that passed rule i's check and have not yet incremented.
Incrementing(i) == { p \in Procs : pc[p] = "incr" /\ loc[p].i = i }

\* C8: at most one goroutine is between Respond's Lock and Unlock; for every
\* tool-call rule with max_calls = N the tool calls emitted, with the one a
\* goroutine past the check is about to emit, number min(N, requests that
\* came to the check), and the counter equals the tool calls emitted.
C8_CounterIsAtomic ==
    /\ Cardinality({ p \in Procs : pc[p] \in {"check", "incr"} }) <= 1
    /\ \A i \in { j \in 1..Len(rrRules) : rrRules[j].ToolCall # NoToolCall /\ rrRules[j].MaxCalls # -1 } :
          /\ emitted[i] + Cardinality(Incrementing(i)) = Min(rrRules[i].MaxCalls, arrived[i])
          /\ callCounts[i] = emitted[i]

\* Requests that met at the mutex are over: three came to a rule with
\* max_calls = 2, which emitted two tool calls.
C8_Witness ==
    /\ overlap
    /\ \A p \in Procs : pc[p] = "idle"
    /\ \E i \in 1..Len(rrRules) :
          /\ rrRules[i].ToolCall # NoToolCall
          /\ rrRules[i].MaxCalls = 2
          /\ arrived[i] >= 3
          /\ emitted[i] = 2

\* ------------------------------------------------------------------------
\* SpecAdmin: the admin state under requests, rule injection and resets.
\* ------------------------------------------------------------------------
AdminRequests == {ReqSearch, ReqHello}
AdminBatches == {<<RuleEcho>>, <<RuleHello, RuleEcho>>}
AdminPriorities == {0, -1, 1, 5}

InitAdmin == InitWith({TRUE}, Baselines, {<<>>})

NextAdmin ==
    \/ HandleRequest(AdminRequests, AdminMaxRequests)
    \/ AddRules(AdminBatches, AdminPriorities, MaxRuleAdds)
    \/ ResetRules
    \/ FullReset

SpecAdmin == InitAdmin /\ [][NextAdmin]_vars

\* C10: right after resetRules or fullReset the live rule list is, rule for
\* rule and in the same order, the list the server was started with.
C10_ResetRestoresBaseline ==
    op.name \in Resets =>
        /\ RuleList(rules) = initialRules
        /\ initialRules = rrRules

\* A reset has just run on a list that held added rules.
C10_Witness ==
    /\ op.name \in Resets
    /\ op.before[1] >= Len(initialRules) + 3
    /\ Len(rules) = Len(initialRules)

\* C11: the baseline (initialRules) is always one of the lists a server is
\* started with and equal to the rules the server's RuleResponder was built
\* with, whatever rules were added, at whatever priority, and whatever
\* resets ran.
C11_BaselineNeverChanges ==
    /\ initialRules \in Baselines
    /\ initialRules = rrRules

\* Two batches were added with a reset between them: the live list is the
\* baseline and the second batch.
C11_Witness ==
    /\ op.name = "addRules"
    /\ nadds = 2
    /\ Len(op.new) = 1
    /\ Len(rules) = Len(initialRules) + 1

\* The insertion index of addRules for priority p on a list of length n, as
\* the interface states it.
InsertIndex(p, n) ==
    IF p = 0 THEN 0
    ELSE IF p = -1 THEN n
    ELSE Min(p, n)

SnapBaselines == { <<RuleToolText, RuleCatchAll>>, <<RuleHello, RuleToolOnly, RuleCatchAll>> }
SnapPriorities == {0, -1, 1}

InitSnapshot == InitWith({TRUE}, SnapBaselines, {<<>>})

NextSnapshot ==
    \E p \in Procs :
        \/ SnapCall(p)
        \/ SnapRLock(p)
        \/ SnapMake(p)
        \/ SnapCopy(p)
        \/ SnapRUnlock(p)
        \/ WriteCall(p, AdminBatches, SnapPriorities)
        \/ WriteLock(p)
        \/ WriteApply(p)
        \/ WriteUnlock(p)

SpecSnapshot == InitSnapshot /\ [][NextSnapshot]_vars

\* C13: no reader holds adminState.mu while a writer does, and every list a
\* snapshot returns (or has copied and is about to return) is a list that
\* was the complete live rule list at some moment.
C13_SnapshotIsConsistent ==
    /\ adminMu.w # 0 => adminMu.r = {}
    /\ op.name = "snapshot" => op.new \in seen
    /\ \A p \in Procs : pc[p] = "runlock" => loc[p].cp \in seen

\* A snapshot returned a list with added rules while a writer was waiting
\* for the mutex.
C13_Witness ==
    /\ op.name = "snapshot"
    /\ Len(op.new) > Len(initialRules)
    /\ Cardinality(seen) >= 2
    /\ \E p \in Procs : pc[p] = "wlock"
    /\ overlap

\* ------------------------------------------------------------------------
\* SpecFallback: a server started with text rules only, the admin API
\* enabled: requests, rule additions and rule resets.
\* ------------------------------------------------------------------------
FallbackBaselines == { <<RuleHello>>, <<RuleHello, RuleCatchAll>> }

InitFallback == InitWith({TRUE}, FallbackBaselines, {<<>>})

NextFallback ==
    \/ HandleRequest(AdminRequests, AdminMaxRequests)
    \/ AddRules(AdminBatches, AdminPriorities, MaxRuleAdds)
    \/ ResetRules

SpecFallback == InitFallback /\ [][NextFallback]_vars

\* C16: the live rule list of the admin state is matched first, and the
\* baseline responder is invoked for a request only when no rule of the
\* live list matches the request's input.
C16_FallbackOnlyOnNoMatch ==
    [][ (op'.name = "request" /\ nreq' # nreq /\ op'.outcome = "ok" /\ op'.rr.called) =>
          \A i \in 1..Len(rules) : extractInput(op'.req.Messages) \notin rules[i].rule.Matches
    ]_vars

\* ------------------------------------------------------------------------
\* SpecTools: requests on the three protocols, streaming or not, with and
\* without declared tools and tool results, to servers with and without
\* auto tool-calling.
\* ------------------------------------------------------------------------
Protocols == {"openai", "anthropic", "gemini"}

\* A first turn, and the turn after a tool call: the assistant's tool call
\* and the tool's result (a message of role "tool" on OpenAI, a block of a
\* user message on Anthropic and Gemini).
FirstTurn == <<Msg("user", Search)>>
ResultTurn(protocol) ==
    <<Msg("user", Search), Msg("assistant", Empty),
      ToolMsg(IF protocol = "openai" THEN "tool" ELSE "user", Search)>>

ToolsRequests ==
    { RequestOn(p, st, ms, ts) :
        p \in Protocols, st \in BOOLEAN, ms \in {FirstTurn},
        ts \in { {}, {"search_kb"}, {"other"} } }
    \cup
    { RequestOn(p, st, ResultTurn(p), ts) :
        p \in Protocols, st \in BOOLEAN, ts \in { {"search_kb"}, {"other"} } }

ToolsBaselines == { <<RuleToolText, RuleCatchAll>>, <<RuleCatchAll>> }

InitTools == InitServer({TRUE, FALSE}, {TRUE, FALSE}, ToolsBaselines, {<<>>})

NextTools == HandleRequest(ToolsRequests, ToolsMaxRequests)

SpecTools == InitTools /\ [][NextTools]_vars

\* C17: a request one of whose messages carries a tool result is never
\* answered with a tool call, whatever the protocol, streaming or not.
C17_ToolResultSuppressesToolCall ==
    (op.name = "request" /\ op.outcome = "ok" /\
       \E i \in 1..Len(op.req.Messages) : op.req.Messages[i].ToolResult)
      => op.out.kind = "text"

\* C18: for a request that declares tools, every tool call of the response
\* names a declared tool, and the response is a text response when no call
\* the server came to names one.
C18_ToolCallsNameDeclaredTools ==
    (op.name = "request" /\ op.outcome = "ok" /\ op.req.Tools # {}) =>
      /\ \A k \in 1..Len(op.out.ToolCalls) : op.out.ToolCalls[k].Name \in op.req.Tools
      /\ (\A k \in 1..Len(op.final.ToolCalls) : op.final.ToolCalls[k].Name \notin op.req.Tools)
            => op.out.kind = "text"

\* ------------------------------------------------------------------------
\* SpecOrder: the order of a handler's steps: requests, some of them
\* rejected by the decoding checks, to servers started with faults and with
\* max_calls rules.
\* ------------------------------------------------------------------------
OrderRequests == {ReqSearch, ReqBadJSON, ReqNoMessages, RequestOn("gemini", FALSE, <<>>, {})}

OrderBaselines == { <<RuleToolText, RuleCatchAll>>, <<RuleToolOnly, RuleToolText>> }

OrderStartFaults ==
    { <<Fault(FaultError, 0, 1, 0)>>,
      <<Fault(FaultRateLimit, 100, 2, 0)>>,
      <<Fault(FaultMalformed, 50, 0, 0)>>,
      <<Fault(FaultDelay, 0, 1, 5), Fault(FaultTimeout, 0, 1, 0)>> }

InitOrder == InitWith({TRUE, FALSE}, OrderBaselines, OrderStartFaults)

NextOrder == HandleRequest(OrderRequests, OrderMaxRequests)

SpecOrder == InitOrder /\ [][NextOrder]_vars

\* C19: a request whose body is not valid JSON or whose messages (contents)
\* array is empty is answered with 400 and nothing else happens: the fault
\* list and the faults' firing counts, the rules' counters, the last matched
\* rule and the request log are as before, and no fault was evaluated.
C19_RejectedBeforeFaultsAndResponder ==
    [][ (op'.name = "request" /\ nreq' # nreq /\
           (~op'.req.valid \/ Len(op'.req.Messages) = 0)) =>
          /\ op'.outcome = "bad_request"
          /\ ~op'.ev.ok /\ op'.d = <<>>
          /\ ~op'.rr.called
          /\ faults' = faults /\ fired' = fired /\ reached' = reached
          /\ rules' = rules /\ callCounts' = callCounts /\ emitted' = emitted
          /\ lastMatchedRule' = lastMatchedRule
          /\ requestLog' = requestLog
    ]_vars

\* A request without messages was rejected while a fault that fires on
\* every request it sees was waiting with a count left, the log held an
\* entry and a rule's counter stood above 0.
C19_Witness ==
    /\ op.name = "request" /\ op.outcome = "bad_request"
    /\ op.req.valid /\ Len(op.req.Messages) = 0
    /\ Len(faults) > 0 /\ faults[1].Fault.Probability \in {0, 100} /\ faults[1].remaining > 0
    /\ Len(requestLog) > 0
    /\ \E i \in 1..Len(rules) : rules[i].calls > 0

\* C20: when an error, rate-limit, malformed or timeout fault fires for a
\* request, the request ends with the fault: the responder is not invoked,
\* no rule is matched, no max_calls counter advances and nothing is logged.
C20_FaultBeforeResponder ==
    [][ (op'.name = "request" /\ nreq' # nreq /\ op'.ev.ok /\
           op'.ev.fault.Type \in {FaultError, FaultRateLimit, FaultMalformed, FaultTimeout}) =>
          /\ op'.outcome = "fault"
          /\ ~op'.rr.called /\ ~op'.again.called
          /\ op'.matched = "" /\ op'.index = 0
          /\ rules' = rules /\ callCounts' = callCounts
          /\ emitted' = emitted /\ arrived' = arrived
          /\ lastMatchedRule' = lastMatchedRule
          /\ requestLog' = requestLog
    ]_vars

\* A timeout fault fired for a request whose input matches a max_calls rule
\* that had a call left.
C20_Witness ==
    /\ op.name = "request" /\ op.outcome = "fault"
    /\ op.ev.ok /\ op.ev.fault.Type = FaultTimeout
    /\ \E i \in 1..Len(rrRules) :
          /\ extractInput(op.req.Messages) \in rrRules[i].Matches
          /\ rrRules[i].MaxCalls # -1
          /\ callCounts[i] < rrRules[i].MaxCalls
          /\ adminOn => rules[i].calls < rrRules[i].MaxCalls

\* ------------------------------------------------------------------------
\* SpecLog: the request log under enough requests to overflow it, and
\* clears.
\* ------------------------------------------------------------------------
LogBaselines == { <<RuleCatchAll>> }
LogRequests == {ReqHello}

InitLog == InitWith({TRUE}, LogBaselines, {<<>>})

NextLog ==
    \/ HandleRequest(LogRequests, LogMaxRequests)
    \/ ClearRequests

SpecLog == InitLog /\ [][NextLog]_vars

\* C14: the request log never holds more than 100 entries; its entries are
\* in arrival order and, in a run where every request is logged, are the
\* consecutive requests up to the latest one; and a logged request is
\* appended, the oldest entry being dropped (and only it) when the log was
\* full: so the log is the most recent min(n, 100) entries since the last
\* clear.
C14_LogKeepsLast100 ==
    /\ [](/\ Len(requestLog) <= 100
          /\ \A j \in 1..(Len(requestLog) - 1) :
                requestLog[j + 1].Timestamp = requestLog[j].Timestamp + 1
          /\ (op.name = "request" /\ op.outcome = "ok") =>
                (Len(requestLog) > 0 /\ requestLog[Len(requestLog)].Timestamp = nreq))
    /\ [][ (op'.name = "request" /\ nreq' # nreq /\ op'.outcome = "ok") =>
             LET l == Len(requestLog)
                 d == IF l < 100 THEN 0 ELSE 1
             IN  /\ Len(requestLog') = l + 1 - d
                 /\ \A j \in 1..(l - d) : requestLog'[j] = requestLog[j + d]
                 /\ requestLog'[l + 1 - d].Timestamp = nreq'
       ]_vars

\* The log is full and its oldest entry is no longer the first request
\* since the log was last empty: entries were dropped on overflow.
C14_Witness ==
    /\ Len(requestLog) = 100
    /\ requestLog[1].Timestamp = 3
    /\ requestLog[100].Timestamp = 102
    /\ op.name = "request"

\* ------------------------------------------------------------------------
\* SpecCounters: the live rules' counters under requests and resets.
\* ------------------------------------------------------------------------
InitCounters == InitWith({TRUE}, Baselines, {<<>>})

NextCounters ==
    \/ HandleRequest(AdminRequests, MaxRequests)
    \/ ResetRules
    \/ FullReset

SpecCounters == InitCounters /\ [][NextCounters]_vars

RulesBaselines == Baselines \cup { <<RuleToolOnly, RuleToolText, RuleCatchAll>> }

InitRules == InitWith({FALSE}, RulesBaselines, {<<>>, <<Fault(FaultDelay, 50, 0, 5)>>})

NextRules == HandleRequest(AllRequests, MaxRequests)

SpecRules == InitRules /\ [][NextRules]_vars

\* The indices of the tool-call rules with max_calls, with and without
\* text responses.
Limited(rs) == { i \in 1..Len(rs) : rs[i].ToolCall # NoToolCall /\ rs[i].MaxCalls # -1 }
LimitedWithText(rs) == { i \in Limited(rs) : Len(rs[i].Responses) > 0 }
LimitedWithoutText(rs) == { i \in Limited(rs) : Len(rs[i].Responses) = 0 }

\* C6: for a tool-call rule with max_calls = N and text responses, every
\* request that comes to the rule is answered by it; of the requests that
\* came to it, the first N got its tool call and every later one got one of
\* its text responses, so it has emitted min(N, requests) tool calls, never
\* more than N.
C6_MaxCallsThenText ==
    \A i \in LimitedWithText(rrRules) :
        /\ emitted[i] = Min(rrRules[i].MaxCalls, arrived[i])
        /\ callCounts[i] = emitted[i]
        /\ (op.name = "request" /\ op.rr.called /\
               i \in Arrivals(rrRules, extractInput(op.req.Messages), op.rr)) =>
              /\ op.rr.rule = i
              /\ IF arrived[i] <= rrRules[i].MaxCalls
                 THEN op.response =
                        ToolCallResponse(resolveToolCall(rrRules[i].ToolCall, extractInput(op.req.Messages)))
                 ELSE op.response \in TextChoices(rrRules[i], extractInput(op.req.Messages))

\* The third request that came to a rule with max_calls = 2 got a text
\* response of the rule.
C6_Witness ==
    \E i \in LimitedWithText(rrRules) :
        /\ rrRules[i].MaxCalls = 2
        /\ arrived[i] = 3
        /\ emitted[i] = 2
        /\ op.name = "request" /\ op.rr.called /\ op.rr.rule = i
        /\ ~IsToolCall(op.response)

\* The indices 1..n that are not in ex, in order.
RECURSIVE KeptIndexes(_, _)
KeptIndexes(n, ex) ==
    IF n = 0 THEN <<>>
    ELSE KeptIndexes(n - 1, ex) \o (IF n \in ex THEN <<>> ELSE <<n>>)

\* What Respond may do on rs, seen through the rules with indices keep: the
\* response, the pattern of the answering rule ("" for the fallback) and the
\* counts left for the rules of keep.
Outcomes(rs, counts, input) ==
    { [response |-> o.response,
       pattern |-> IF o.rule = 0 THEN "" ELSE rs[o.rule].Pattern,
       counts |-> o.counts] : o \in Respond(rs, counts, input) }

\* C7: a request is answered exactly as if the exhausted max_calls rules
\* without text responses were not in the list: the same possible responses
\* from the same rule, with the same counters left for the other rules; such
\* an exhausted rule never answers.
C7_ExhaustedRuleIsSkipped ==
    [][ (op'.name = "request" /\ nreq' # nreq /\ op'.outcome = "ok" /\ op'.rr.called) =>
          LET input == extractInput(op'.req.Messages)
              ex == { i \in LimitedWithoutText(rrRules) : callCounts[i] >= rrRules[i].MaxCalls }
              keep == KeptIndexes(Len(rrRules), ex)
              rest == [k \in 1..Len(keep) |-> rrRules[keep[k]]]
              restCounts == [k \in 1..Len(keep) |-> callCounts[keep[k]]]
              with == { [response |-> o.response, pattern |-> o.pattern,
                         counts |-> [k \in 1..Len(keep) |-> o.counts[keep[k]]]]
                        : o \in Outcomes(rrRules, callCounts, input) }
              without == Outcomes(rest, restCounts, input)
          IN  /\ with = without
              /\ [response |-> op'.response,
                  pattern |-> IF op'.rr.rule = 0 THEN "" ELSE rrRules[op'.rr.rule].Pattern,
                  counts |-> [k \in 1..Len(keep) |-> callCounts'[keep[k]]]] \in without
              /\ op'.rr.rule \notin ex
              /\ \A i \in ex : callCounts'[i] = callCounts[i]
    ]_vars

\* A request matching an exhausted rule without text responses was answered
\* by a later rule of the list.
C7_Witness ==
    \E i \in LimitedWithoutText(rrRules) :
        /\ callCounts[i] >= rrRules[i].MaxCalls
        /\ op.name = "request" /\ op.rr.called
        /\ extractInput(op.req.Messages) \in rrRules[i].Matches
        /\ op.rr.rule > i

\* The first rule of rs whose pattern matches the input (0: none).
FirstMatching(rs, input) ==
    LET ms == { i \in 1..Len(rs) : input \in rs[i].Matches }
    IN  IF ms = {} THEN 0 ELSE CHOOSE i \in ms : \A j \in ms : i <= j

\* The first rule of rs whose pattern matches the input and that is not a
\* tool-call rule without text responses that has used up its max_calls
\* (0: none).
FirstAnswering(rs, counts, input) ==
    LET ms == { i \in 1..Len(rs) :
                  /\ input \in rs[i].Matches
                  /\ ~(i \in LimitedWithoutText(rs) /\ counts[i] >= rs[i].MaxCalls) }
    IN  IF ms = {} THEN 0 ELSE CHOOSE i \in ms : \A j \in ms : i <= j

\* The responses rule f of rs alone gives to the input (f = 0: the
\* fallback's text).
AnswersOf(rs, counts, input, f) ==
    IF f = 0 THEN { TextResponse(MarkovText) }
    ELSE IF rs[f].ToolCall # NoToolCall /\ ~(rs[f].MaxCalls # -1 /\ counts[f] >= rs[f].MaxCalls)
    THEN { ToolCallResponse(resolveToolCall(rs[f].ToolCall, input)) }
    ELSE { TextResponse(expandTemplate(rs[f].Responses[k], input)) : k \in 1..Len(rs[f].Responses) }

\* C15 (as stated): Respond answers with the first rule, in list order,
\* whose pattern matches the input.
C15_FirstMatchAnswers ==
    [][ (op'.name = "request" /\ nreq' # nreq /\ op'.outcome = "ok" /\ op'.rr.called) =>
          op'.rr.rule = FirstMatching(rrRules, extractInput(op'.req.Messages))
    ]_vars

\* C15 (amended): Respond answers with the first rule, in list order, whose
\* pattern matches the input and that is not a tool-call rule without text
\* responses whose max_calls are used up; the possible responses are those
\* of that rule alone, whatever rules follow it, and no counter of a later
\* rule changes.
C15_FirstAnsweringRuleAnswers ==
    [][ (op'.name = "request" /\ nreq' # nreq /\ op'.outcome = "ok" /\ op'.rr.called) =>
          LET input == extractInput(op'.req.Messages)
              f == FirstAnswering(rrRules, callCounts, input)
          IN  /\ op'.rr.rule = f
              /\ op'.response \in AnswersOf(rrRules, callCounts, input, f)
              /\ { o.response : o \in Respond(rrRules, callCounts, input) }
                    = AnswersOf(rrRules, callCounts, input, f)
              /\ \A j \in 1..Len(rrRules) : j > f /\ f > 0 => callCounts'[j] = callCounts[j]
    ]_vars

\* A request was answered by a rule that comes after a matching rule that
\* was passed over and before another rule matching the same input.
C15_Witness ==
    /\ op.name = "request" /\ op.outcome = "ok" /\ op.rr.called
    /\ op.rr.rule > 0
    /\ \E j \in (op.rr.rule + 1)..Len(rrRules) : extractInput(op.req.Messages) \in rrRules[j].Matches
    /\ \E i \in 1..(op.rr.rule - 1) : extractInput(op.req.Messages) \in rrRules[i].Matches

\* C29: the input fed to the rules is the content of the last message with
\* role "user", or of the last message when no message has that role; the
\* rule that answers matches that input; a request whose input is empty is
\* answered 400 (no messages) and to no other request that gets as far as the
\* responder.
C29_InputIsLastUserMessage ==
    (op.name = "request" /\ op.outcome \in {"ok", "no_messages"}) =>
        LET ms == op.req.Messages
            users == { i \in 1..Len(ms) : ms[i].Role = "user" }
            last == IF users = {} THEN Len(ms) ELSE CHOOSE i \in users : \A j \in users : j <= i
        IN  /\ op.input = ms[last].Content
            /\ (op.outcome = "no_messages") <=> (ms[last].Content = <<>>)
            /\ op.outcome = "ok" =>
                  /\ op.rr.called
                  /\ op.rr.rule > 0 => ms[last].Content \in rrRules[op.rr.rule].Matches

\* A request with two user messages of different content, followed by an
\* assistant message, was answered by a rule that matches the second.
C29_Witness ==
    /\ op.name = "request" /\ op.outcome = "ok"
    /\ op.req = ReqTwoUsers
    /\ op.input = Search
    /\ op.rr.rule > 0 /\ Hello \notin rrRules[op.rr.rule].Matches

\* C30: two servers built with the same seed and the same rules, given the
\* same requests one at a time, return the same responses. Both are in the
\* same state before each request, so this says that the state a server is
\* in (its seed, rules and counters) and the request leave one response
\* possible.
C30_SameSeedSameResponses ==
    [][ (op'.name = "request" /\ nreq' # nreq /\ op'.outcome = "ok") =>
          \A o \in Respond(rrRules, callCounts, op'.input) : o.response = op'.response
    ]_vars

\* ------------------------------------------------------------------------
\* stream.go: tokenize. A text is a sequence of units; the units " " and
\* "\n" are white space, every other unit is a piece of a word.
\* ------------------------------------------------------------------------
MaxTextLen == 4

Whitespace == {" ", "\n"}

\* strings.Fields: the maximal runs of units that are not white space.
RECURSIVE fieldsFrom(_, _)
fieldsFrom(text, word) ==
    IF text = <<>>
    THEN IF word = <<>> THEN <<>> ELSE <<word>>
    ELSE IF Head(text) \in Whitespace
         THEN (IF word = <<>> THEN <<>> ELSE <<word>>) \o fieldsFrom(Tail(text), <<>>)
         ELSE fieldsFrom(Tail(text), Append(word, Head(text)))

Fields(text) == fieldsFrom(text, <<>>)

\* strings.Join.
RECURSIVE Join(_, _)
Join(words, sep) ==
    IF words = <<>> THEN <<>>
    ELSE IF Len(words) = 1 THEN words[1]
    ELSE words[1] \o sep \o Join(Tail(words), sep)

\* The loop of tokenize from word i on; ns[i + 1] is rand.IntN(3) + 1 as
\* drawn when the loop stands at word i.
RECURSIVE chunksFrom(_, _, _)
chunksFrom(words, i, ns) ==
    IF i >= Len(words) THEN <<>>
    ELSE LET n == IF i + ns[i + 1] > Len(words) THEN Len(words) - i ELSE ns[i + 1]
         IN  <<Join(SubSeq(words, i + 1, i + n), <<" ">>)>> \o chunksFrom(words, i + n, ns)

\* tokenize: chunks of one to three words, each but the first with a space
\* in front; no chunk (nil) for a text without a word.
tokenize(text, ns) ==
    LET chunks == chunksFrom(Fields(text), 0, ns)
    IN  [k \in 1..Len(chunks) |-> IF k = 1 THEN chunks[k] ELSE <<" ">> \o chunks[k]]

\* The draws of rand.IntN(3) + 1 tokenize can make for a text.
Draws(text) == [1..Len(Fields(text)) -> 1..3]

\* What a client gets by putting the chunk texts one after another.
RECURSIVE Concat(_)
Concat(chunks) == IF chunks = <<>> THEN <<>> ELSE Head(chunks) \o Concat(Tail(chunks))

\* The texts of at most MaxTextLen units, each a letter or white space.
TokTexts == UNION { [1..n -> {"a", "b"} \cup Whitespace] : n \in 0..MaxTextLen }

\* A streaming emitter tokenizes the response text.
Tokenize(texts) ==
    /\ \E text \in texts : \E ns \in Draws(text) :
          op' = [OpBlank EXCEPT !.name = "tokenize", !.text = text,
                                !.chunks = tokenize(text, ns)]
    /\ UNCHANGED <<optVars, clock, stdio, connVars, faultVars, adminVars, rrVars, nreq, nadds, procVars, snapVars>>

InitTokenize == InitWith({FALSE}, {<<RuleCatchAll>>}, {<<>>})

NextTokenize == Tokenize(TokTexts)

SpecTokenize == InitTokenize /\ [][NextTokenize]_vars

\* C24: for any response text, the chunk texts of the stream, put one after
\* another in order, are exactly the text the non-streaming path returns
\* (which is the response text itself).
C24_ChunksConcatToText ==
    op.name = "tokenize" => Concat(op.chunks) = op.text

\* ------------------------------------------------------------------------
\* One connection, step by step: the handler from the decoding of the
\* request to its return, the client that may go away, and the timers of
\* the delay fault and of the pause between two chunks.
\* hpc: "idle", "fault" (before executeFault), "delay" and "block" (in
\* executeFault's select and receive), "respond" (before the responder),
\* "emit" (before a write of the stream), "sleep" (in the emitter's
\* select), "done" (returned).
\* ------------------------------------------------------------------------
ConnMaxRequests == 2

Blank == <<" ">>

\* What is written to the connection: an SSE event, or a whole body.
Event(type) ==
    [type |-> type, role |-> "", text |-> <<>>, finish |-> "", id |-> 0, usage |-> FALSE]

\* executeFault, FaultTimeout: the one event written on a streaming request
\* before the handler blocks (ids "chatcmpl-timeout", "msg_timeout": -1).
timeoutOpening(protocol) ==
    IF protocol = "anthropic" THEN [Event("message_start") EXCEPT !.role = "assistant", !.id = -1]
    ELSE IF protocol = "gemini" THEN [Event("chunk") EXCEPT !.role = "model"]
    ELSE [Event("chunk") EXCEPT !.role = "assistant", !.id = -1]

\* An emitter that names the role in every content chunk: not what
\* streamOpenAI does.
streamOpenAIRoles(id, chunks) ==
    [k \in 1..Len(chunks) |->
        [Event("chunk") EXCEPT !.id = id, !.text = chunks[k], !.role = "assistant"]]
    \o << [Event("chunk") EXCEPT !.id = id, !.finish = "stop"], Event("[DONE]") >>

\* streamOpenAI run to its end: a content chunk per token group, the final
\* chunk, [DONE].
streamOpenAI(id, chunks) ==
    [k \in 1..Len(chunks) |->
        [Event("chunk") EXCEPT !.id = id, !.text = chunks[k],
                               !.role = IF k = 1 THEN "assistant" ELSE ""]]
    \o << [Event("chunk") EXCEPT !.id = id, !.finish = "stop"], Event("[DONE]") >>

\* streamAnthropic run to its end.
streamAnthropic(id, chunks) ==
    << [Event("message_start") EXCEPT !.id = id, !.role = "assistant"],
       Event("content_block_start") >>
    \o [k \in 1..Len(chunks) |-> [Event("content_block_delta") EXCEPT !.text = chunks[k]]]
    \o << Event("content_block_stop"),
          [Event("message_delta") EXCEPT !.finish = "end_turn", !.usage = TRUE],
          Event("message_stop") >>

\* streamGemini run to its end: the last chunk carries finishReason and
\* usageMetadata.
streamGemini(chunks) ==
    [k \in 1..Len(chunks) |->
        [Event("chunk") EXCEPT !.role = "model", !.text = chunks[k],
                               !.finish = IF k = Len(chunks) THEN "STOP" ELSE "",
                               !.usage = (k = Len(chunks))]]

\* The tool-call emitters run to their end, for one call whose arguments
\* fit one chunk of splitString: streamOpenAIToolCall,
\* streamAnthropicToolCall, streamGeminiToolCall.
streamToolCall(protocol, id) ==
    IF protocol = "anthropic"
    THEN << [Event("message_start") EXCEPT !.id = id, !.role = "assistant"],
            Event("content_block_start"),
            [Event("content_block_delta") EXCEPT !.text = <<"args">>],
            Event("content_block_stop"),
            [Event("message_delta") EXCEPT !.finish = "tool_use", !.usage = TRUE],
            Event("message_stop") >>
    ELSE IF protocol = "gemini"
    THEN << [Event("chunk") EXCEPT !.role = "model", !.finish = "STOP", !.usage = TRUE] >>
    ELSE << [Event("chunk") EXCEPT !.id = id, !.role = "assistant"],
            [Event("chunk") EXCEPT !.id = id, !.text = <<"args">>],
            [Event("chunk") EXCEPT !.id = id, !.finish = "tool_calls"],
            Event("[DONE]") >>

\* What the emitter of a streaming response writes when nothing stops it.
streamEvents(protocol, kind, id, chunks) ==
    IF kind = "tool_calls" THEN streamToolCall(protocol, id)
    ELSE IF protocol = "anthropic" THEN streamAnthropic(id, chunks)
    ELSE IF protocol = "gemini" THEN streamGemini(chunks)
    ELSE streamOpenAI(id, chunks)

\* The writes after which the emitter waits in its select: after every
\* content chunk but the last (i < len(chunks)-1), after every argument
\* chunk of a tool call; streamGeminiToolCall never waits.
pauses(protocol, kind, chunks) ==
    IF kind = "tool_calls"
    THEN IF protocol = "anthropic" THEN {3} ELSE IF protocol = "gemini" THEN {} ELSE {2}
    ELSE IF protocol = "anthropic" THEN { k + 2 : k \in 1..(Len(chunks) - 1) }
    ELSE 1..(Len(chunks) - 1)

\* The body of a response that is not streamed.
responseBody(id, out) ==
    [Event("body") EXCEPT !.id = id, !.text = out.Text, !.role = "assistant", !.usage = TRUE,
                          !.finish = IF out.kind = "tool_calls" THEN "tool_calls" ELSE "stop"]

\* A delay after which the handler goes on whatever ended it: not what
\* executeFault does.
afterDelayAnyway(wake) == "respond"

\* executeFault, FaultDelay: the select returns true (the handler returns)
\* when the context is done, and falls through to the responder when the
\* timer fires.
afterDelay(wake) == IF wake = "ctx" THEN "done" ELSE "respond"

\* A timeout that returns without waiting for the client: not what
\* executeFault does.
afterTimeoutAnyway(wake) == "done"

\* executeFault, FaultTimeout: <-r.Context().Done(), then return true.
afterTimeout(wake) == IF wake = "ctx" THEN "done" ELSE "block"

\* An emitter that goes on writing when the context ends its pause: not
\* what the emitters do.
afterSleepAnyway(wake) == "emit"

\* The emitters' select between two chunks: return when the context is
\* done, go on with the next chunk when the timer fires.
afterSleep(wake) == IF wake = "ctx" THEN "done" ELSE "emit"

\* The handler's locals at the start of a request.
Handling(req, id) == [NoHandler EXCEPT !.req = req, !.id = id]

\* The handler comes to a select or a receive on r.Context().Done(): a
\* context that is already done ends the wait.
Block(hl, at) ==
    [hl EXCEPT !.wake = IF ctxDone THEN "ctx" ELSE "",
               !.cancel = IF ctxDone THEN at ELSE @]

\* The handler reads and decodes the request, answers 400 to a request it
\* rejects, and evaluates the faults.
Accept(requests, maxRequests) ==
    /\ hpc \in {"idle", "done"}
    /\ nreq < maxRequests
    /\ nreq' = nreq + 1
    /\ ctxDone' = FALSE
    /\ UNCHANGED <<optVars, clock, stdio, adminVars, rrVars, added, op, nadds, procVars, snapVars>>
    /\ \E req \in requests :
        IF rejected(req)
        THEN /\ wire' = << [Event("error") EXCEPT !.id = 400] >>
             /\ hpc' = "done"
             /\ h' = Handling(req, nreq + 1)
             /\ UNCHANGED <<faults, fired, reached>>
        ELSE \E d \in [1..Len(faults) -> Variates] :
             LET ev == evaluate(faults, d)
                 last == IF ev.ok THEN ev.index ELSE Len(faults)
             IN  /\ faults' = ev.faults
                 /\ fired' = IF ev.ok THEN [fired EXCEPT ![ev.id] = @ + 1] ELSE fired
                 /\ reached' = [id \in DOMAIN reached |->
                                  IF \E j \in 1..last : faults[j].id = id
                                  THEN reached[id] + 1 ELSE reached[id]]
                 /\ wire' = <<>>
                 /\ hpc' = IF ev.ok THEN "fault" ELSE "respond"
                 /\ h' = [Handling(req, nreq + 1) EXCEPT !.fault = ev.fault, !.fid = ev.id,
                                                         !.left = ev.faults]

\* executeFault up to its return or to the point where it blocks.
ExecuteFault ==
    /\ hpc = "fault"
    /\ UNCHANGED <<optVars, clock, stdio, ctxDone, faultVars, adminVars, rrVars, op, nreq, nadds, procVars, snapVars>>
    /\ CASE h.fault.Type = FaultDelay ->
              /\ wire' = wire
              /\ IF h.fault.DelayMS > 0
                 THEN hpc' = "delay" /\ h' = Block(h, "delay")
                 ELSE hpc' = "respond" /\ h' = h
         [] h.fault.Type \in {FaultError, FaultRateLimit} ->
              /\ wire' = << [Event("error") EXCEPT !.id = IF h.fault.Type = FaultRateLimit THEN 429 ELSE 500] >>
              /\ hpc' = "done" /\ h' = h
         [] h.fault.Type = FaultMalformed ->
              /\ wire' = << Event("malformed") >>
              /\ hpc' = "done" /\ h' = h
         [] h.fault.Type = FaultTimeout ->
              /\ wire' = IF h.req.Stream THEN << timeoutOpening(h.req.protocol) >> ELSE <<>>
              /\ hpc' = "block" /\ h' = Block(h, "block")
         [] OTHER ->
              /\ wire' = wire /\ hpc' = "respond" /\ h' = h

\* The client goes away: r.Context() is done. A handler that is blocked
\* with the context among its cases is woken by it.
ClientDisconnect ==
    /\ hpc \notin {"idle", "done"}
    /\ ~ctxDone
    /\ ctxDone' = TRUE
    /\ h' = IF hpc \in {"delay", "block", "sleep"} /\ h.wake = ""
            THEN [h EXCEPT !.wake = "ctx", !.cancel = hpc] ELSE h
    /\ UNCHANGED <<optVars, clock, stdio, hpc, wire, faultVars, adminVars, rrVars, op, nreq, nadds, procVars, snapVars>>

\* The timer of time.After fires while the handler waits for it.
TimerFire ==
    /\ hpc \in {"delay", "sleep"}
    /\ h.wake = ""
    /\ h' = [h EXCEPT !.wake = "timer"]
    /\ UNCHANGED <<optVars, clock, stdio, hpc, ctxDone, wire, faultVars, adminVars, rrVars, op, nreq, nadds, procVars, snapVars>>

\* The blocked handler goes on with the case that woke it.
Wake ==
    /\ hpc \in {"delay", "block", "sleep"}
    /\ LET to == CASE hpc = "delay" -> afterDelay(h.wake)
                   [] hpc = "block" -> afterTimeout(h.wake)
                   [] OTHER -> afterSleep(h.wake)
       IN  /\ IF hpc = "block" THEN to = "done" ELSE h.wake # ""
           /\ hpc' = to
    /\ UNCHANGED <<optVars, clock, stdio, ctxDone, wire, h, faultVars, adminVars, rrVars, op, nreq, nadds, procVars, snapVars>>

\* The handler after the faults: the responder, the log entry, and the body
\* of a response that is not streamed or the start of the emitter.
Answer ==
    /\ hpc = "respond"
    /\ UNCHANGED <<optVars, clock, stdio, ctxDone, faultVars, initialRules, rrRules, revived, op, nreq, nadds, procVars, snapVars>>
    /\ LET req == h.req
           input == extractInput(req.Messages)
       IN  IF input = Empty
           THEN /\ wire' = << [Event("error") EXCEPT !.id = 400] >>
                /\ hpc' = "done"
                /\ h' = [h EXCEPT !.responded = TRUE]
                /\ UNCHANGED <<rules, requestLog, lastMatchedRule, callCounts, emitted, arrived>>
           ELSE \E a \in respondAndAdjust(req, input, adminOn, autoToolCalls, rules, rrRules, callCounts) :
                LET out == writtenFor(req, a.final)
                IN  /\ rules' = a.last.rules
                    /\ callCounts' = a.last.counts
                    /\ lastMatchedRule' = IF adminOn THEN a.last.matched ELSE lastMatchedRule
                    /\ requestLog' = IF adminOn
                                     THEN logRequest(requestLog,
                                            [Timestamp |-> nreq, UserMessage |-> input,
                                             MatchedRule |-> a.last.matched, Response |-> a.final.Text])
                                     ELSE requestLog
                    /\ emitted' = Emit(Emit(emitted, a.first.rr), a.again)
                    /\ arrived' = Arrive(Arrive(arrived, rrRules, input, a.first.rr), rrRules, input, a.again)
                    /\ IF ~req.Stream
                       THEN /\ wire' = wire \o << responseBody(h.id, out) >>
                            /\ hpc' = "done"
                            /\ h' = [h EXCEPT !.responded = TRUE, !.kind = out.kind, !.text = out.Text]
                       ELSE \E ns \in Draws(out.Text) :
                            LET chunks == tokenize(out.Text, ns)
                                events == streamEvents(req.protocol, out.kind, h.id, chunks)
                            IN  /\ wire' = wire
                                /\ hpc' = IF events = <<>> THEN "done" ELSE "emit"
                                /\ h' = [h EXCEPT !.responded = TRUE, !.kind = out.kind,
                                                  !.text = out.Text, !.chunks = chunks,
                                                  !.events = events,
                                                  !.pauses = pauses(req.protocol, out.kind, chunks)]

\* The emitter writes and flushes its next event, then waits in the select,
\* goes on, or returns.
EmitNext ==
    /\ hpc = "emit"
    /\ wire' = Append(wire, h.events[h.i + 1])
    /\ IF h.i + 1 \in h.pauses
       THEN hpc' = "sleep" /\ h' = Block([h EXCEPT !.i = @ + 1], "sleep")
       ELSE /\ hpc' = IF h.i + 1 = Len(h.events) THEN "done" ELSE "emit"
            /\ h' = [h EXCEPT !.i = @ + 1]
    /\ UNCHANGED <<optVars, clock, stdio, ctxDone, faultVars, adminVars, rrVars, op, nreq, nadds, procVars, snapVars>>

\* A rule with a tool call, a rule with a text of four words, and a rule
\* that echoes the input.
ConnBaselines ==
    { << Rule("search", {Search}, <<>>, SearchTool, -1),
         Rule("hello", {Hello}, << <<"a", " ", "b", " ", "c", " ", "d">> >>, NoToolCall, -1),
         Rule(".*", {Search, Hello, Blank}, << <<"${input}">> >>, NoToolCall, -1) >> }

ConnStartFaults ==
    { <<>>, <<Fault(FaultDelay, 100, 2, 5)>>, <<Fault(FaultTimeout, 100, 2, 0)>>,
      <<Fault(FaultError, 100, 1, 0)>>, <<Fault(FaultMalformed, 100, 1, 0)>> }

ConnRequests ==
    { RequestOn(p, st, <<Msg("user", c)>>, {}) :
         p \in Protocols, st \in BOOLEAN, c \in {Search, Hello, Blank} }
    \cup {ReqBadJSON}

InitConn == InitWith({FALSE}, ConnBaselines, ConnStartFaults)

NextConn ==
    \/ Accept(ConnRequests, ConnMaxRequests)
    \/ ExecuteFault
    \/ ClientDisconnect
    \/ TimerFire
    \/ Wake
    \/ Answer
    \/ EmitNext

SpecConn == InitConn /\ [][NextConn]_vars

\* C21: when the client goes away while the handler waits in a fault's delay
\* or blocks in a timeout fault, the handler returns without writing a
\* response and without invoking the responder, and the decrement of the
\* fault's count stays applied.
C21_DisconnectDuringFaultEndsHandler ==
    h.cancel \in {"delay", "block"} =>
        /\ hpc \in {h.cancel, "done"}
        /\ ~h.responded
        /\ wire = IF h.cancel = "block" /\ h.req.Stream
                  THEN << timeoutOpening(h.req.protocol) >> ELSE <<>>
        /\ faults = h.left
        /\ fired[h.fid] >= 1
        /\ \A j \in 1..Len(faults) :
              faults[j].id = h.fid => faults[j].remaining = h.fault.Count - fired[h.fid]
        /\ fired[h.fid] = h.fault.Count => \A j \in 1..Len(faults) : faults[j].id # h.fid

\* The handler returned from a delay that the client's going away ended;
\* the fault of count 2 is left with one firing.
C21_Witness ==
    /\ hpc = "done" /\ h.cancel = "delay" /\ ctxDone
    /\ wire = <<>>
    /\ Len(faults) = 1 /\ faults[1].remaining = 1 /\ h.fault.Count = 2

\* C22: a request on which a timeout fault fires never gets a completed
\* response: the handler writes at most the opening event of a stream, does
\* not invoke the responder, and returns only after the client context is
\* done.
C22_TimeoutNeverCompletes ==
    (h.fault.Type = FaultTimeout /\ hpc # "fault") =>
        /\ hpc \in {"block", "done"}
        /\ wire = IF h.req.Stream THEN << timeoutOpening(h.req.protocol) >> ELSE <<>>
        /\ ~h.responded
        /\ hpc = "done" => ctxDone

\* The handler of a streaming request returned from a timeout fault.
C22_Witness ==
    /\ hpc = "done" /\ h.fault.Type = FaultTimeout /\ ctxDone
    /\ h.req.Stream /\ Len(wire) = 1

\* C23: every request ends with a written response or ends because the
\* client went away: no handler returns with nothing written while the
\* client is still connected.
C23_NoSilentReturn ==
    hpc = "done" => (wire # <<>> \/ ctxDone)

\* The returns with nothing written to a connected client are those of
\* streamGemini on a text without a word.
SilentReturnsAreEmptyGeminiStreams ==
    (hpc = "done" /\ wire = <<>> /\ ~ctxDone) =>
        /\ h.req.protocol = "gemini" /\ h.req.Stream
        /\ h.responded /\ h.kind = "text" /\ Fields(h.text) = <<>>

\* A streaming text response whose emitter ran to its end on protocol p.
Completed(p) ==
    /\ hpc = "done" /\ h.req.protocol = p /\ h.req.Stream
    /\ h.responded /\ h.kind = "text" /\ h.cancel = ""

C26_OpenAIStreamGrammar ==
    Completed("openai") =>
        LET n == Len(wire) - 2
        IN  /\ n = Len(h.chunks)
            /\ \A k \in 1..n :
                  /\ wire[k].type = "chunk" /\ wire[k].finish = ""
                  /\ wire[k].text = h.chunks[k] /\ wire[k].text # <<>>
                  /\ (wire[k].role = "assistant") <=> (k = 1)
            /\ wire[n + 1] = [Event("chunk") EXCEPT !.id = h.id, !.finish = "stop"]
            /\ wire[n + 2] = Event("[DONE]")
            /\ \A k \in 1..(n + 1) : wire[k].id = h.id

\* A completed OpenAI stream of three content chunks.
C26_Witness ==
    Completed("openai") /\ Len(wire) = 5 /\ wire[3].text # <<>>

\* C27: an Anthropic streaming text response that runs to its end is
\* message_start, content_block_start, one or more content_block_delta,
\* content_block_stop, message_delta with stop_reason end_turn,
\* message_stop, and nothing else.
C27_AnthropicStreamGrammar ==
    Completed("anthropic") =>
        LET n == Len(wire) - 5
        IN  /\ n >= 1
            /\ wire[1].type = "message_start"
            /\ wire[2].type = "content_block_start"
            /\ \A k \in 1..n : wire[k + 2].type = "content_block_delta"
            /\ wire[n + 3].type = "content_block_stop"
            /\ wire[n + 4].type = "message_delta" /\ wire[n + 4].finish = "end_turn"
            /\ wire[n + 5].type = "message_stop"

\* C28: a Gemini streaming text response that runs to its end ends with
\* exactly one chunk that carries finishReason "STOP" and usageMetadata; no
\* earlier chunk carries a finishReason.
C28_GeminiStreamEndsWithStop ==
    Completed("gemini") =>
        /\ Len(wire) >= 1
        /\ wire[Len(wire)].finish = "STOP" /\ wire[Len(wire)].usage
        /\ \A k \in 1..(Len(wire) - 1) : wire[k].finish = "" /\ ~wire[k].usage

\* The completed streams that break the grammars of C27 and C28 are those
\* of a text without a word; every other one follows them.
GrammarsBreakOnlyOnTextsWithoutWords ==
    /\ (Completed("anthropic") /\ Fields(h.text) # <<>>) => C27_AnthropicStreamGrammar
    /\ (Completed("gemini") /\ Fields(h.text) # <<>>) => C28_GeminiStreamEndsWithStop

\* ------------------------------------------------------------------------
\* Handlers of chat requests running side by side on a server with the admin
\* API: adminResponder.Respond, then logAdminRequest. Each goroutine's steps
\* are the atomic sections of the code: the rule matching (under the admin
\* state's read lock, with the fallback), the store to lastMatchedRule and
\* the load from it (each under adminResponder.mu), the reading of the clock,
\* and logRequest (under the admin state's lock).
\* ------------------------------------------------------------------------
RaceMaxRequests == 3
MaxClock == 2

\* Time passes.
Tick ==
    /\ clock < MaxClock
    /\ clock' = clock + 1
    /\ UNCHANGED <<optVars, stdio, connVars, faultVars, adminVars, rrVars, op, nreq, nadds, procVars, snapVars>>

\* A handler has decoded a request and calls s.responder.Respond.
ChatCall(p, inputs) ==
    /\ pc[p] = "idle"
    /\ nreq < RaceMaxRequests
    /\ nreq' = nreq + 1
    /\ \E input \in inputs :
        loc' = [loc EXCEPT ![p] = [NoLocals EXCEPT !.call = "chat", !.input = input]]
    /\ pc' = [pc EXCEPT ![p] = "respond"]
    /\ UNCHANGED <<optVars, clock, stdio, connVars, faultVars, adminVars, snapVars, rrVars, op, nadds, faultMu, rrMu, overlap>>

\* adminResponder.Respond up to the store: ar.state.matchRules(input), and
\* the fallback when nothing answered.
ChatMatch(p) ==
    /\ pc[p] = "respond"
    /\ \E o \in adminRespond(rules, rrRules, callCounts, loc[p].input) :
        /\ rules' = o.rules
        /\ callCounts' = o.counts
        /\ emitted' = Emit(emitted, o.rr)
        /\ arrived' = Arrive(arrived, rrRules, loc[p].input, o.rr)
        /\ loc' = [loc EXCEPT ![p].own = o.matched, ![p].response = o.response.Text]
    /\ pc' = [pc EXCEPT ![p] = "store"]
    /\ UNCHANGED <<optVars, clock, stdio, connVars, faultVars, initialRules, requestLog, lastMatchedRule, revived, snapVars, rrRules, op, nreq, nadds, faultMu, rrMu, overlap>>

\* ar.mu.Lock(); ar.lastMatchedRule = matched; ar.mu.Unlock()
ChatStore(p) ==
    /\ pc[p] = "store"
    /\ lastMatchedRule' = loc[p].own
    /\ pc' = [pc EXCEPT ![p] = "load"]
    /\ UNCHANGED <<optVars, clock, stdio, connVars, faultVars, rules, initialRules, requestLog, revived, snapVars, rrVars, op, nreq, nadds, faultMu, rrMu, loc, overlap>>

\* logAdminRequest: matchedRule = ar.getLastMatchedRule()
ChatLoad(p) ==
    /\ pc[p] = "load"
    /\ loc' = [loc EXCEPT ![p].matched = lastMatchedRule]
    /\ pc' = [pc EXCEPT ![p] = "now"]
    /\ UNCHANGED <<optVars, clock, stdio, connVars, faultVars, adminVars, snapVars, rrVars, op, nreq, nadds, faultMu, rrMu, overlap>>

\* logAdminRequest: Timestamp: time.Now(), evaluated before logRequest is
\* called.
ChatNow(p) ==
    /\ pc[p] = "now"
    /\ loc' = [loc EXCEPT ![p].ts = clock]
    /\ pc' = [pc EXCEPT ![p] = "append"]
    /\ UNCHANGED <<optVars, clock, stdio, connVars, faultVars, adminVars, snapVars, rrVars, op, nreq, nadds, faultMu, rrMu, overlap>>

\* adminState.logRequest under a.mu.
ChatLog(p) ==
    /\ pc[p] = "append"
    /\ requestLog' = logRequest(requestLog,
                        [Timestamp |-> loc[p].ts, UserMessage |-> loc[p].input,
                         MatchedRule |-> loc[p].matched, Response |-> loc[p].response])
    /\ op' = [OpBlank EXCEPT !.name = "log", !.input = loc[p].input, !.matched = loc[p].own]
    /\ Return(p)
    /\ UNCHANGED <<optVars, clock, stdio, connVars, faultVars, rules, initialRules, lastMatchedRule, revived, snapVars, rrVars, nreq, nadds, faultMu, rrMu, overlap>>

InitRace == InitWith({TRUE}, {<<RuleHello, RuleCatchAll>>}, {<<>>})

NextRace ==
    \/ Tick
    \/ \E p \in Procs :
        \/ ChatCall(p, {Hello, Search})
        \/ ChatMatch(p)
        \/ ChatStore(p)
        \/ ChatLoad(p)
        \/ ChatNow(p)
        \/ ChatLog(p)

SpecRace == InitRace /\ [][NextRace]_vars

\* C31: the entries of the request log are in non-decreasing order of their
\* timestamps, also when requests are handled side by side.
C31_LogTimestampsNonDecreasing ==
    \A i \in 1..Len(requestLog) : \A j \in i..Len(requestLog) :
        requestLog[i].Timestamp <= requestLog[j].Timestamp

\* C38: the matched_rule of a request's log entry is the pattern of the rule
\* that matched that request (empty if none did), also when other requests
\* are handled side by side.
C38_LoggedRuleIsOwnMatch ==
    op.name = "log" =>
        /\ requestLog # <<>>
        /\ requestLog[Len(requestLog)].UserMessage = op.input
        /\ requestLog[Len(requestLog)].MatchedRule = op.matched

\* ------------------------------------------------------------------------
\* JSON-RPC: the MCP endpoint (POST /mcp), the control plane (POST
\* /mcp/control) and the stdio transport.
\* A request is what was sent: the transport, the body ("json": one JSON
\* value; "trailing": a JSON value with other bytes after it; "garbage": no
\* JSON value), and what the JSON value holds. The arguments of a tool call
\* are given by their kind: pattern "none", "empty", "bad" (not a regular
\* expression) or "ok"; responses "none", "empty", "nonstring" or "ok".
\* ------------------------------------------------------------------------
ControlMaxRequests == 1
ControlMaxAdds == 1

jsonRPCParseError == -32700
jsonRPCInvalidRequest == -32600
jsonRPCMethodNotFound == -32601
jsonRPCInvalidParams == -32602

NoArgs == [pattern |-> "none", responses |-> "none", priority |-> 0, type |-> ""]

RPCRequest(transport, id, method, name, args) ==
    [transport |-> transport, body |-> "json", jsonrpc |-> "2.0", id |-> id, method |-> method,
     paramsOK |-> TRUE, name |-> name, args |-> args]

\* The tools of the control plane (controlTools) and the tools the MCP
\* endpoint was configured with.
ControlTools ==
    {"llmock_add_rule", "llmock_list_rules", "llmock_reset_rules", "llmock_add_fault",
     "llmock_list_faults", "llmock_clear_faults", "llmock_list_requests",
     "llmock_clear_requests", "llmock_reset"}

MCPTools == {"my_tool"}

\* json.NewDecoder(r.Body).Decode reads the first JSON value of the body and
\* does not look at what follows; json.Unmarshal takes the whole line.
decodes(req) ==
    req.body = "json" \/ (req.body = "trailing" /\ req.transport # "stdio")

\* The methods dispatchMCP and dispatch know.
methods(transport) ==
    IF transport = "mcp"
    THEN {"initialize", "tools/list", "tools/call", "resources/list", "resources/read",
          "prompts/list", "prompts/get"}
    ELSE {"initialize", "tools/list", "tools/call"}

\* A dispatcher that does not look at the version: not what the handlers do.
rpcErrorAnyVersion(req) ==
    IF ~decodes(req) THEN jsonRPCParseError
    ELSE IF req.method \notin methods(req.transport) THEN jsonRPCMethodNotFound
    ELSE IF req.method = "tools/call" /\
            (~req.paramsOK \/ req.name = ""
             \/ req.name \notin (IF req.transport = "mcp" THEN MCPTools ELSE ControlTools))
    THEN jsonRPCInvalidParams
    ELSE 0

\* handleMCP / handleControl / handleLine, then dispatchMCP / dispatch, then
\* mcpToolsCall / toolsCall up to the tool: the JSON-RPC error the request
\* is answered with, 0 when there is none.
rpcError(req) ==
    IF ~decodes(req) THEN jsonRPCParseError
    ELSE IF req.jsonrpc # "2.0" THEN jsonRPCInvalidRequest
    ELSE IF req.method \notin methods(req.transport) THEN jsonRPCMethodNotFound
    ELSE IF req.method = "tools/call" /\
            (~req.paramsOK \/ req.name = ""
             \/ req.name \notin (IF req.transport = "mcp" THEN MCPTools ELSE ControlTools))
    THEN jsonRPCInvalidParams
    ELSE 0

\* A callAddRule that takes whatever it is given: not what callAddRule does.
callAddRuleUnchecked(args) == ""

\* callAddRule's checks, in order: the controlError it returns, "" when
\* the rule is added.
callAddRule(args) ==
    IF args.pattern \in {"none", "empty"} THEN "pattern is required"
    ELSE IF args.pattern = "bad" THEN "invalid regex"
    ELSE IF args.responses \in {"none", "empty"} THEN "responses is required and must not be empty"
    ELSE IF args.responses = "nonstring" THEN "responses must be an array of strings"
    ELSE ""

\* callAddFault's check.
callAddFault(args) == IF args.type = "" THEN "type is required" ELSE ""

\* The controlError of a tool call, "" when the tool ran.
callErr(req) ==
    IF req.name = "llmock_add_rule" THEN callAddRule(req.args)
    ELSE IF req.name = "llmock_add_fault" THEN callAddFault(req.args)
    ELSE ""

\* The tool of a request that gets as far as a control-plane tool, and runs
\* it without a controlError; "" otherwise.
ranTool(req) ==
    IF rpcError(req) = 0 /\ req.method = "tools/call" /\ req.transport # "mcp" /\ callErr(req) = ""
    THEN req.name ELSE ""

\* The response to a request: the id (none on a parse error), the error
\* code, or a result, with isError for a controlError.
rpcReply(req) ==
    LET code == rpcError(req)
    IN  IF code # 0
        THEN [id |-> IF code = jsonRPCParseError THEN 0 ELSE req.id, code |-> code,
              result |-> FALSE, isError |-> FALSE]
        ELSE [id |-> req.id, code |-> 0, result |-> TRUE,
              isError |-> (req.method = "tools/call" /\ req.transport # "mcp" /\ callErr(req) # "")]

\* One JSON-RPC request from its decoding to its response, with what the
\* tool it calls does to the server: the rule of llmock_add_rule is the
\* rule "hello", the fault of llmock_add_fault an error fault.
Dispatch(req) ==
    LET tool == ranTool(req)
        resets == tool \in {"llmock_reset_rules", "llmock_reset"}
    IN  /\ tool = "llmock_add_rule" => nadds < ControlMaxAdds
        /\ tool = "llmock_add_fault" => Len(added) < ControlMaxAdds
        /\ rules' = IF tool = "llmock_add_rule"
                    THEN addRules(rules, CopyRules(<<RuleHello>>), req.args.priority)
                    ELSE IF resets THEN resetRules(rules, initialRules)
                    ELSE rules
        /\ nadds' = IF tool = "llmock_add_rule" THEN nadds + 1 ELSE nadds
        /\ revived' = IF resets THEN revived \cup Exhausted(rules) ELSE revived
        /\ requestLog' = IF tool \in {"llmock_clear_requests", "llmock_reset"} THEN <<>> ELSE requestLog
        /\ faults' = IF tool = "llmock_add_fault"
                     THEN addFaults(faults, Fault(req.args.type, 0, 0, 0), Len(added) + 1)
                     ELSE IF tool \in {"llmock_clear_faults", "llmock_reset"} THEN <<>>
                     ELSE faults
        /\ added' = IF tool = "llmock_add_fault" THEN Append(added, Fault(req.args.type, 0, 0, 0)) ELSE added
        /\ fired' = IF tool = "llmock_add_fault" THEN Append(fired, 0) ELSE fired
        /\ reached' = IF tool = "llmock_add_fault" THEN Append(reached, 0) ELSE reached
        /\ op' = [OpBlank EXCEPT !.name = "rpc", !.rpc = req, !.reply = rpcReply(req)]
        /\ UNCHANGED <<optVars, clock, connVars, rrVars, initialRules, lastMatchedRule, nreq, procVars, snapVars>>

\* A request arrives at POST /mcp or POST /mcp/control.
HandleRPC(requests) ==
    /\ \E req \in requests : req.transport # "stdio" /\ Dispatch(req)
    /\ UNCHANGED stdio

\* The requests of the model: every way to fail before the tool, every tool,
\* and every kind of arguments of the two tools that take some.
RPCRequests ==
    UNION { LET call(name, args) == RPCRequest(t, 1, "tools/call", name, args)
                any == call("llmock_reset", NoArgs)
            IN  { [any EXCEPT !.body = "garbage"], [any EXCEPT !.body = "trailing"],
                  [any EXCEPT !.jsonrpc = "1.0"], [any EXCEPT !.paramsOK = FALSE] }
                \cup { RPCRequest(t, 1, m, "", NoArgs)
                       : m \in {"initialize", "tools/list", "resources/list", "bogus"} }
                \cup { call(n, NoArgs) : n \in ControlTools \cup MCPTools \cup {"", "nope"} }
          : t \in {"mcp", "control", "stdio"} }
    \cup { RPCRequest(t, 1, "tools/call", "llmock_add_rule",
                      [NoArgs EXCEPT !.pattern = pt, !.responses = rs])
           : t \in {"control", "stdio"}, pt \in {"none", "empty", "bad", "ok"},
             rs \in {"none", "empty", "nonstring", "ok"} }
    \cup { RPCRequest(t, 1, "tools/call", "llmock_add_rule",
                      [NoArgs EXCEPT !.pattern = "ok", !.responses = "ok", !.priority = -1])
           : t \in {"control", "stdio"} }
    \cup { RPCRequest(t, 1, "tools/call", "llmock_add_fault", [NoArgs EXCEPT !.type = FaultError])
           : t \in {"control", "stdio"} }

InitControl == InitWith({TRUE}, {<<RuleCatchAll>>}, {<<>>})

NextControl ==
    \/ HandleRPC(RPCRequests)
    \/ HandleRequest({ReqHello}, ControlMaxRequests)

SpecControl == InitControl /\ [][NextControl]_vars

\* A tool call that reached llmock_add_rule or llmock_add_fault with
\* arguments that fail validation.
FailsValidation(req) ==
    /\ req.transport # "mcp" /\ req.body = "json" /\ req.jsonrpc = "2.0"
    /\ req.method = "tools/call" /\ req.paramsOK
    /\ \/ /\ req.name = "llmock_add_rule"
          /\ req.args.pattern # "ok" \/ req.args.responses # "ok"
       \/ req.name = "llmock_add_fault" /\ req.args.type = ""

\* C32: a control-plane tool call that fails validation (missing pattern,
\* invalid regex, missing or non-string responses, missing fault type) gets
\* a successful JSON-RPC response whose result has isError true, and leaves
\* the rule list, the fault list and the request log as they were.
C32_ValidationErrorIsResultAndChangesNothing ==
    [][ (op'.name = "rpc" /\ FailsValidation(op'.rpc)) =>
          /\ op'.reply = [id |-> op'.rpc.id, code |-> 0, result |-> TRUE, isError |-> TRUE]
          /\ UNCHANGED <<rules, faults, requestLog>>
      ]_vars

\* A tool call with an invalid regex was answered with isError, on a server
\* that has a rule added, a fault and a log entry.
C32_Witness ==
    /\ op.name = "rpc" /\ op.rpc.name = "llmock_add_rule" /\ op.rpc.args.pattern = "bad"
    /\ op.rpc.args.responses = "ok"
    /\ op.reply.isError
    /\ Len(rules) = 2 /\ faults # <<>> /\ requestLog # <<>>

StdioMaxLines == 3

\* A loop that hands every line to handleLine: not what Run does.
skipsNothing(line) == FALSE

\* Run: if len(line) == 0 { continue }
skips(line) == line.body = "blank"

\* The lines a client may send; the id of a request is the number of its
\* line.
StdioLines(k) ==
    LET call(name, args) == RPCRequest("stdio", k, "tools/call", name, args)
        reset == call("llmock_reset", NoArgs)
    IN  { [reset EXCEPT !.body = "blank"], [reset EXCEPT !.body = "garbage"],
          [reset EXCEPT !.body = "oversize"],
          [reset EXCEPT !.jsonrpc = "1.0"], reset,
          call("llmock_add_rule", [NoArgs EXCEPT !.pattern = "bad", !.responses = "ok"]),
          RPCRequest("stdio", k, "tools/list", "", NoArgs) }

StdioInputs ==
    UNION { { in \in [1..n -> UNION { StdioLines(k) : k \in 1..n }] :
                \A k \in 1..n : in[k] \in StdioLines(k) }
            : n \in 0..StdioMaxLines }

\* Run is called with a reader and a writer.
Run(inputs) ==
    /\ stdio.ret = ""
    /\ \E in \in inputs : stdio' = [input |-> in, pos |-> 0, out |-> <<>>, ret |-> "running"]
    /\ UNCHANGED <<optVars, clock, connVars, faultVars, adminVars, rrVars, op, nreq, nadds, procVars, snapVars>>

\* scanner.Scan() gives a line: a blank line is skipped, any other goes
\* through handleLine, and its response is written as one line.
RunLine ==
    /\ stdio.ret = "running"
    /\ stdio.pos < Len(stdio.input)
    /\ stdio.input[stdio.pos + 1].body # "oversize"
    /\ LET line == stdio.input[stdio.pos + 1]
       IN  IF skips(line)
           THEN /\ stdio' = [stdio EXCEPT !.pos = @ + 1]
                /\ UNCHANGED <<optVars, clock, connVars, faultVars, adminVars, rrVars, op, nreq, nadds, procVars, snapVars>>
           ELSE /\ Dispatch(line)
                /\ stdio' = [stdio EXCEPT !.pos = @ + 1, !.out = Append(@, rpcReply(line))]

\* scanner.Scan() returns false at the end of the input: Run returns
\* scanner.Err(), which is nil.
RunEOF ==
    /\ stdio.ret = "running"
    /\ stdio.pos = Len(stdio.input)
    /\ stdio' = [stdio EXCEPT !.ret = "nil"]
    /\ UNCHANGED <<optVars, clock, connVars, faultVars, adminVars, rrVars, op, nreq, nadds, procVars, snapVars>>

\* scanner.Scan() returns false at a line that does not fit the buffer:
\* Run returns scanner.Err(), which is bufio.ErrTooLong, and reads no more.
RunTooLong ==
    /\ stdio.ret = "running"
    /\ stdio.pos < Len(stdio.input)
    /\ stdio.input[stdio.pos + 1].body = "oversize"
    /\ stdio' = [stdio EXCEPT !.ret = "ErrTooLong"]
    /\ UNCHANGED <<optVars, clock, connVars, faultVars, adminVars, rrVars, op, nreq, nadds, procVars, snapVars>>

InitStdio == InitWith({TRUE}, {<<RuleCatchAll>>}, {<<Fault(FaultError, 0, 0, 0)>>})

NextStdio ==
    \/ Run(StdioInputs)
    \/ RunLine
    \/ RunEOF
    \/ RunTooLong

SpecStdio == InitStdio /\ [][NextStdio]_vars

\* The lines of a sequence that are not blank, in order.
RECURSIVE NonBlank(_)
NonBlank(lines) ==
    IF lines = <<>> THEN <<>>
    ELSE (IF Head(lines).body = "blank" THEN <<>> ELSE <<Head(lines)>>) \o NonBlank(Tail(lines))

ArgumentChunkBytes == 20
MaxArgsPad == 40

\* splitString(s, n): the chunks of at most n bytes.
RECURSIVE splitString(_, _)
splitString(s, n) ==
    IF Len(s) = 0 THEN <<>>
    ELSE IF Len(s) <= n THEN <<s>>
    ELSE <<SubSeq(s, 1, n)>> \o splitString(SubSeq(s, n + 1, Len(s)), n)

\* json.Marshal of a string, as the reader decodes it: valid characters as
\* they are, every byte that is not part of one replaced by U+FFFD.
RECURSIVE jsonString(_)
jsonString(bytes) ==
    IF bytes = <<>> THEN <<>>
    ELSE IF Head(bytes) = "L" /\ Len(bytes) >= 2 /\ bytes[2] = "T"
    THEN <<"L", "T">> \o jsonString(SubSeq(bytes, 3, Len(bytes)))
    ELSE IF Head(bytes) \in {"L", "T"}
    THEN <<"?">> \o jsonString(Tail(bytes))
    ELSE <<Head(bytes)>> \o jsonString(Tail(bytes))

\* streamOpenAIToolCall and streamAnthropicToolCall: the arguments and
\* partial_json strings of one call's events, in the order of emission.
argumentSlices(argsStr) ==
    LET chunks == splitString(argsStr, ArgumentChunkBytes)
    IN  [k \in 1..Len(chunks) |-> jsonString(chunks[k])]

\* The encodings json.Marshal gives for arguments: valid UTF-8, here a run
\* of ASCII bytes followed by at most two characters of one or two bytes.
ArgsTexts ==
    LET chars == {<<"a">>, <<"L", "T">>}
        tails == {<<>>} \cup chars \cup { c \o d : c \in chars, d \in chars }
    IN  { [k \in 1..n |-> "a"] \o t : n \in 0..MaxArgsPad, t \in tails }

\* A tool-call emitter streams the arguments of one call.
StreamArguments(texts) ==
    /\ \E argsStr \in texts :
          op' = [OpBlank EXCEPT !.name = "arguments", !.text = argsStr,
                                !.chunks = argumentSlices(argsStr)]
    /\ UNCHANGED <<optVars, clock, stdio, connVars, faultVars, adminVars, rrVars, nreq, nadds, procVars, snapVars>>

InitArguments == InitWith({FALSE}, {<<RuleToolOnly>>}, {<<>>})

NextArguments == StreamArguments(ArgsTexts)

SpecArguments == InitArguments /\ [][NextArguments]_vars

\* C35: for every streamed tool call, the arguments slices (OpenAI) or
\* partial_json slices (Anthropic), put one after another in the order of
\* emission, are exactly the JSON encoding of the resolved arguments.
C35_SlicesConcatToArguments ==
    op.name = "arguments" => Concat(op.chunks) = op.text

\* The slices fail to add up only when a cut falls inside a character.
SlicesOfWholeCharactersConcatToArguments ==
    (op.name = "arguments" /\ \A k \in 1..Len(op.chunks) :
                                \A i \in 1..Len(op.chunks[k]) : op.chunks[k][i] # "?")
        => Concat(op.chunks) = op.text

\* ------------------------------------------------------------------------
\* The pause between two streamed chunks: the token delay New was given, by
\* WithTokenDelay or by defaults.token_delay_ms of a config, and the wait
\* of the emitters' time.After(s.getTokenDelay()). Durations are in ms.
\* ------------------------------------------------------------------------
DefaultTokenDelayMS == 15
MaxDelayMS == 5
MaxOptions == 2

\* A delay that is used as it was set: not what getTokenDelay does.
getTokenDelayAsSet(delay) == delay

\* getTokenDelay: s.tokenDelay when it is positive, 15 ms otherwise.
getTokenDelay(delay) == IF delay > 0 THEN delay ELSE DefaultTokenDelayMS

\* New applies WithTokenDelay(d): s.tokenDelay = d.
WithTokenDelay(delays) ==
    /\ op.name # "wait"
    /\ Len(opts) < MaxOptions
    /\ \E d \in delays :
          /\ tokenDelay' = d
          /\ opts' = Append(opts, d)
          /\ op' = [OpBlank EXCEPT !.name = "option", !.wait = d]
    /\ UNCHANGED <<adminOn, autoToolCalls, clock, stdio, connVars, faultVars, adminVars, rrVars, nreq, nadds, procVars, snapVars>>

\* New applies Config.ToOptions: WithTokenDelay only for a token_delay_ms
\* above 0.
ToOptions(delays) ==
    /\ op.name # "wait"
    /\ Len(opts) < MaxOptions
    /\ \E ms \in delays :
          /\ tokenDelay' = IF ms > 0 THEN ms ELSE tokenDelay
          /\ opts' = Append(opts, ms)
          /\ op' = [OpBlank EXCEPT !.name = "config", !.wait = ms]
    /\ UNCHANGED <<adminOn, autoToolCalls, clock, stdio, connVars, faultVars, adminVars, rrVars, nreq, nadds, procVars, snapVars>>

\* An emitter comes to the select between two chunks and starts the timer.
StreamWait ==
    /\ op' = [OpBlank EXCEPT !.name = "wait", !.wait = getTokenDelay(tokenDelay)]
    /\ UNCHANGED <<optVars, clock, stdio, connVars, faultVars, adminVars, rrVars, nreq, nadds, procVars, snapVars>>

InitDelay == InitWith({FALSE}, {<<RuleCatchAll>>}, {<<>>})

NextDelay ==
    \/ WithTokenDelay(0..MaxDelayMS)
    \/ ToOptions(0..MaxDelayMS)
    \/ StreamWait

SpecDelay == InitDelay /\ [][NextDelay]_vars

\* C36: the wait between streamed chunks is the configured token delay, a
\* configured delay of 0 (no wait) included; 15 ms only when none was
\* configured.
C36_WaitIsConfiguredDelay ==
    op.name = "wait" =>
        op.wait = IF opts = <<>> THEN DefaultTokenDelayMS ELSE opts[Len(opts)]

\* The wait is the field when it is positive, and the default when nothing
\* was configured.
PositiveDelayIsWaited ==
    op.name = "wait" =>
        /\ tokenDelay > 0 => op.wait = tokenDelay
        /\ opts = <<>> => op.wait = DefaultTokenDelayMS

\* ------------------------------------------------------------------------
\* The Markov chain: NewMarkovChain, Train and Generate. A text is the
\* sequence of its whitespace-delimited words; the chain maps a prefix of
\* order words to the list of its followers; the random source is a free
\* choice of the starting prefix and of every follower.
\* ------------------------------------------------------------------------
MaxOrder == 2
MaxCorpusLen == 4
MaxTokens == 5

MarkovWords == {"a", "b", "e."}

\* endsWithSentence: the word ends with '.', '!' or '?'.
endsWithSentence(word) == word = "e."

\* NewMarkovChain: an order below 1 becomes 1.
NewMarkovChain(order) == IF order < 1 THEN 1 ELSE order

\* Train: the followers of prefix among words[i+order], i from at on, in
\* the order of the text.
RECURSIVE followersFrom(_, _, _, _)
followersFrom(words, order, prefix, at) ==
    IF at > Len(words) - order THEN <<>>
    ELSE (IF SubSeq(words, at, at + order - 1) = prefix THEN <<words[at + order]>> ELSE <<>>)
         \o followersFrom(words, order, prefix, at + 1)

\* Train on an empty chain: nothing for a text of at most order words,
\* else every window of order words with its followers.
Train(order, words) ==
    IF Len(words) <= order THEN <<>>
    ELSE [prefix \in { SubSeq(words, i, i + order - 1) : i \in 1..(Len(words) - order) } |->
             followersFrom(words, order, prefix, 1)]

\* Generate's loop: the results it can return from result and prefix on.
RECURSIVE generateFrom(_, _, _, _, _)
generateFrom(chain, order, prefix, result, maxTokens) ==
    IF ~(Len(result) < maxTokens) THEN {result}
    ELSE IF prefix \notin DOMAIN chain \/ Len(chain[prefix]) = 0 THEN {result}
    ELSE UNION { LET next == chain[prefix][k]
                     longer == Append(result, next)
                 IN  IF Len(longer) >= order + 4 /\ endsWithSentence(next)
                     THEN {longer}
                     ELSE generateFrom(chain, order, Append(Tail(prefix), next), longer, maxTokens)
                 : k \in 1..Len(chain[prefix]) }

\* Generate: the words of the texts it can return.
Generate(chain, order, maxTokens) ==
    IF DOMAIN chain = {} \/ maxTokens <= 0 THEN { <<>> }
    ELSE UNION { generateFrom(chain, order, prefix, prefix, maxTokens) : prefix \in DOMAIN chain }

Corpora == UNION { [1..n -> MarkovWords] : n \in 0..MaxCorpusLen }

\* A chain of some order is trained on a corpus and generates once.
MarkovGenerate(corpora, orders, limits) ==
    /\ op.name = "init"
    /\ \E words \in corpora, o \in orders, maxTokens \in limits :
          LET order == NewMarkovChain(o)
          IN  \E result \in Generate(Train(order, words), order, maxTokens) :
                 op' = [OpBlank EXCEPT !.name = "generate", !.corpus = words, !.order = order,
                                       !.maxTokens = maxTokens, !.text = result]
    /\ UNCHANGED <<optVars, clock, stdio, connVars, faultVars, adminVars, rrVars, nreq, nadds, procVars, snapVars>>

InitMarkov == InitWith({FALSE}, {<<>>}, {<<>>})

NextMarkov == MarkovGenerate(Corpora, 0..MaxOrder, 0..MaxTokens)

SpecMarkov == InitMarkov /\ [][NextMarkov]_vars

\* C37: Generate(maxTokens) never returns more than maxTokens words, for
\* every order of the chain and every maxTokens, and returns the empty
\* string when the chain has no prefixes.
C37_AtMostMaxTokens ==
    op.name = "generate" =>
        /\ Len(op.text) <= op.maxTokens
        /\ Len(op.corpus) <= op.order => op.text = <<>>

\* The result is longer than maxTokens only when maxTokens is below the
\* order: it is then the starting prefix.
MoreThanMaxTokensOnlyBelowOrder ==
    (op.name = "generate" /\ (op.maxTokens = 0 \/ op.maxTokens >= op.order)) =>
        Len(op.text) <= op.maxTokens

\* ------------------------------------------------------------------------
\* The max-calls counter and what the handler does with the tool call
\* after the responder returned it.
\* ------------------------------------------------------------------------

\* C39: the max-calls counter of a rule advances only when its tool call
\* is delivered to the client: a request whose tool call is dropped by the
\* declared-tools filter, or demoted to text because the request carries
\* tool results, leaves every counter as it was.
C39_CounterCountsDeliveredCalls ==
    [][ (op'.name = "request" /\ op'.out.kind # "tool_calls") =>
            UNCHANGED callCounts ]_vars

\* ------------------------------------------------------------------------
\* POST /_mock/rules: the handler from the decoded body to the response.
\* An entry of the body has a pattern (compiles says whether regexp.Compile
\* accepts it; Matches is the set of inputs it matches), its responses and
\* a priority: <<p>>, or <<>> when the entry names none.
\* ------------------------------------------------------------------------
PostMaxEntries == 2
PostMaxPosts == 2

Entry(rule, compiles, priority) ==
    [Pattern |-> rule.Pattern, Matches |-> rule.Matches, Responses |-> rule.Responses,
     compiles |-> compiles, Priority |-> priority]

\* A loop that leaves out the entries it cannot use and goes on: not what
\* the handler does.
RECURSIVE compileValid(_)
compileValid(entries) ==
    IF entries = <<>> THEN [ok |-> TRUE, rules |-> <<>>, priority |-> 0]
    ELSE LET e == entries[Len(entries)]
             front == compileValid(SubSeq(entries, 1, Len(entries) - 1))
         IN  IF ~e.compiles \/ Len(e.Responses) = 0 THEN front
             ELSE [ok |-> TRUE,
                   rules |-> Append(front.rules, Rule(e.Pattern, e.Matches, e.Responses, NoToolCall, -1)),
                   priority |-> IF e.Priority # <<>> THEN e.Priority[1] ELSE front.priority]

\* The handler's loop over req.Rules: it stops at the first entry whose
\* pattern does not compile or that has no response; else the compiled
\* rules in the order of the entries, and the priority of the last entry
\* that names one (0 when none does).
RECURSIVE compileBatch(_)
compileBatch(entries) ==
    IF entries = <<>> THEN [ok |-> TRUE, rules |-> <<>>, priority |-> 0]
    ELSE LET e == entries[Len(entries)]
             front == compileBatch(SubSeq(entries, 1, Len(entries) - 1))
         IN  IF ~front.ok \/ ~e.compiles \/ Len(e.Responses) = 0
             THEN [ok |-> FALSE, rules |-> <<>>, priority |-> 0]
             ELSE [ok |-> TRUE,
                   rules |-> Append(front.rules, Rule(e.Pattern, e.Matches, e.Responses, NoToolCall, -1)),
                   priority |-> IF e.Priority # <<>> THEN e.Priority[1] ELSE front.priority]

\* The entries a client sends: three that are in order, with and without a
\* priority, one with a pattern that does not compile, one without
\* responses.
PostEntries ==
    { Entry(RuleEcho, TRUE, <<>>), Entry(RuleHello, TRUE, <<1>>), Entry(RuleHello, TRUE, <<-1>>),
      Entry(RuleEcho, FALSE, <<>>),
      Entry(Rule("hello", {Hello}, <<>>, NoToolCall, -1), TRUE, <<1>>) }

PostBodies == UNION { [1..n -> PostEntries] : n \in 0..PostMaxEntries }

\* POST /_mock/rules with a body that decodes: 400 for an empty rules array
\* and for the first entry that is not in order, else addRules with the
\* whole compiled batch and 201.
PostRules(bodies, maxPosts) ==
    /\ adminOn
    /\ nadds < maxPosts
    /\ nadds' = nadds + 1
    /\ \E entries \in bodies :
         LET batch == compileBatch(entries)
         IN  IF Len(entries) = 0 \/ ~batch.ok
             THEN /\ rules' = rules
                  /\ op' = [OpBlank EXCEPT !.name = "postRules", !.entries = entries, !.outcome = 400]
             ELSE /\ rules' = addRules(rules, CopyRules(batch.rules), batch.priority)
                  /\ op' = [OpBlank EXCEPT !.name = "postRules", !.entries = entries, !.outcome = 201,
                                           !.new = batch.rules, !.priority = batch.priority]
    /\ UNCHANGED <<optVars, clock, stdio, connVars, faultVars, rrVars, initialRules, requestLog, lastMatchedRule, revived, nreq, procVars, snapVars>>

InitPost == InitWith({TRUE}, {<<RuleCatchAll>>}, {<<>>})

NextPost ==
    \/ PostRules(PostBodies, PostMaxPosts)
    \/ ResetRules

SpecPost == InitPost /\ [][NextPost]_vars

\* C40: a POST /_mock/rules batch goes in whole or not at all: with any
\* entry whose pattern does not compile or that has no responses the
\* answer is 400 and the rule list is as before; otherwise all entries are
\* in the list afterwards, next to each other and in the order of the
\* request, between existing rules that kept their order.
C40_BatchIsAllOrNothing ==
    [][ op'.name = "postRules" =>
          LET es == op'.entries
              broken == \E k \in 1..Len(es) : ~es[k].compiles \/ Len(es[k].Responses) = 0
              new == [k \in 1..Len(es) |->
                        Instance(Rule(es[k].Pattern, es[k].Matches, es[k].Responses, NoToolCall, -1))]
          IN  /\ broken => (op'.outcome = 400 /\ rules' = rules)
              /\ ~broken => \E i \in 0..Len(rules) :
                    rules' = SubSeq(rules, 1, i) \o new \o SubSeq(rules, i + 1, Len(rules))
    ]_vars

\* A batch whose second entry has a pattern that does not compile was
\* refused after a batch of two had gone in.
C40_Witness ==
    /\ op.name = "postRules" /\ op.outcome = 400
    /\ Len(op.entries) = 2
    /\ op.entries[1].compiles /\ Len(op.entries[1].Responses) > 0
    /\ ~op.entries[2].compiles
    /\ Len(rules) = 3

====
